---- MODULE Spec2Model ----
(***************************************************************************)
(* Chart-candidate normalisation and query-plan derivation of the Superset *)
(* dashboard generator (app/services/chart_generator).                     *)
(*                                                                         *)
(* JSON values are tagged tuples, so that a candidate may carry a value of *)
(* any JSON type under any key:                                            *)
(*   <<"null">>, <<"bool", b>>, <<"num", n>>, <<"float", s>>, <<"str", s>>,*)
(*   <<"list", seq>>, <<"dict", f>>  (f a function from key strings).      *)
(* Python strings are TLA+ strings; parsing, slicing and case conversion   *)
(* are computed character by character.                                    *)
(***************************************************************************)
EXTENDS Integers, Sequences, FiniteSets, TLC

VARIABLES
    DEFAULT_QUERY_CONTEXT,  \* the module-level dict of constants.py, shared by every build
    now,                    \* int(time.time()), the salt of generated metric ids
    calls,                  \* number of compile / build calls made so far
    op,                     \* the operation that produced the current result
    in_cand,                \* candidate (ai_response) of the current call
    in_ds,                  \* dataset_selected of the current call
    in_type,                \* chart type handed to validate_params_by_chart_type
    out,                    \* what the current call returned
    out2,                   \* what a second application returned (re-normalisation, re-build)
    first_plan,             \* plan returned by the first build of the tracked input
    pc,                     \* per-builder program counter of the concurrent builds
    local                   \* per-builder locals of the concurrent builds

vars == <<DEFAULT_QUERY_CONTEXT, now, calls, op, in_cand, in_ds, in_type, out, out2,
          first_plan, pc, local>>

(* ------------------------------ bounds --------------------------------- *)
MaxCalls == 3
MaxClock == 1

(* --------------------------- JSON helpers ------------------------------ *)
JNull == <<"null">>
JTrue == <<"bool", TRUE>>
JFalse == <<"bool", FALSE>>
JStr(s) == <<"str", s>>
JNum(n) == <<"num", n>>
JFloat(s) == <<"float", s>>
JBool(b) == <<"bool", b>>
JList(xs) == <<"list", xs>>
JDict(f) == <<"dict", f>>
EmptyDict == JDict(<<>>)
EmptyList == JList(<<>>)

\* the value an operator returns when the Python code raises an exception
RAISE == <<"raise">>

IsStr(v) == v[1] = "str"
IsList(v) == v[1] = "list"
IsDict(v) == v[1] = "dict"
IsNull(v) == v[1] = "null"
IsBool(v) == v[1] = "bool"
IsNum(v) == v[1] = "num"

\* `k in d`, d.get(k, dflt), d[k] = v, del d[k] on a dict value
has(d, k) == k \in DOMAIN d[2]
get(d, k, dflt) == IF k \in DOMAIN d[2] THEN d[2][k] ELSE dflt
put(d, k, v) == JDict([x \in (DOMAIN d[2]) \cup {k} |-> IF x = k THEN v ELSE d[2][x]])
del(d, k) == JDict([x \in (DOMAIN d[2]) \ {k} |-> d[2][x]])
keys(d) == DOMAIN d[2]
\* d1 overlaid by d2 (for key, value in d2.items(): d1[key] = value)
update(d1, d2) == JDict([x \in keys(d1) \cup keys(d2) |-> IF x \in keys(d2) THEN d2[2][x] ELSE d1[2][x]])
\* for key, value in d2.items(): if key not in d1: d1[key] = value
setdefaults(d1, d2) == update(d2, d1)

items(l) == l[2]
append(l, v) == JList(Append(l[2], v))

\* Python truthiness (bool(v))
Truthy(v) ==
    CASE v[1] = "null" -> FALSE
      [] v[1] = "bool" -> v[2]
      [] v[1] = "num" -> v[2] # 0
      [] v[1] = "float" -> TRUE
      [] v[1] = "str" -> v[2] # ""
      [] v[1] = "list" -> Len(v[2]) > 0
      [] v[1] = "dict" -> DOMAIN v[2] # {}
      [] OTHER -> TRUE

(* -------------------------- string helpers ----------------------------- *)
LowerChars == "abcdefghijklmnopqrstuvwxyz"
UpperChars == "ABCDEFGHIJKLMNOPQRSTUVWXYZ"
Digits == "0123456789"

CharAt(s, i) == SubSeq(s, i, i)

UpChar(c) ==
    IF \E i \in 1..26 : CharAt(LowerChars, i) = c
    THEN CharAt(UpperChars, CHOOSE i \in 1..26 : CharAt(LowerChars, i) = c)
    ELSE c

LowChar(c) ==
    IF \E i \in 1..26 : CharAt(UpperChars, i) = c
    THEN CharAt(LowerChars, CHOOSE i \in 1..26 : CharAt(UpperChars, i) = c)
    ELSE c

RECURSIVE Upper(_)
\* str.upper()
Upper(s) == IF s = "" THEN "" ELSE UpChar(CharAt(s, 1)) \o Upper(SubSeq(s, 2, Len(s)))

RECURSIVE Lower(_)
\* str.lower()
Lower(s) == IF s = "" THEN "" ELSE LowChar(CharAt(s, 1)) \o Lower(SubSeq(s, 2, Len(s)))

\* `sub in s`
Contains(s, sub) ==
    \E i \in 1..(Len(s) - Len(sub) + 1) : SubSeq(s, i, i + Len(sub) - 1) = sub

\* s.startswith(prefix)
StartsWith(s, prefix) == Len(s) >= Len(prefix) /\ SubSeq(s, 1, Len(prefix)) = prefix

\* s.find(sub): 0-based index of the first occurrence, -1 when there is none
Find(s, sub) ==
    IF Contains(s, sub)
    THEN (CHOOSE i \in 1..Len(s) :
            /\ SubSeq(s, i, i + Len(sub) - 1) = sub
            /\ \A j \in 1..(i - 1) : SubSeq(s, j, j + Len(sub) - 1) # sub) - 1
    ELSE -1

\* s[a:b] with Python's treatment of negative and out-of-range indexes
PySlice(s, a, b) ==
    LET n == Len(s)
        clamp(i) == IF i < 0 THEN (IF n + i < 0 THEN 0 ELSE n + i) ELSE (IF i > n THEN n ELSE i)
        lo == clamp(a)
        hi == clamp(b)
    IN IF lo >= hi THEN "" ELSE SubSeq(s, lo + 1, hi)

RECURSIVE IntToStr(_)
\* str(n) for an int
IntToStr(n) ==
    IF n < 0 THEN "-" \o IntToStr(0 - n)
    ELSE IF n < 10 THEN CharAt(Digits, n + 1)
    ELSE IntToStr(n \div 10) \o CharAt(Digits, (n % 10) + 1)

\* str(v) / f"{v}" for the scalar JSON values
PyStr(v) ==
    CASE v[1] = "str" -> v[2]
      [] v[1] = "null" -> "None"
      [] v[1] = "bool" -> IF v[2] THEN "True" ELSE "False"
      [] v[1] = "num" -> IntToStr(v[2])
      [] v[1] = "float" -> v[2]
      [] OTHER -> "<object>"

\* any(word in s for word in words)
ContainsAny(s, words) == \E w \in words : Contains(s, w)

(* --------------------------- sequence helpers -------------------------- *)
\* [x for x in xs if P(x)]
\* `name = value` followed by the statements that use the name
With(value, rest(_)) == rest(value)

Filter(xs, P(_)) ==
    LET idx == {i \in 1..Len(xs) : P(xs[i])}
    IN [k \in 1..Cardinality(idx) |->
            xs[CHOOSE i \in idx : Cardinality({j \in idx : j <= i}) = k]]

\* index of the first element satisfying P, 0 when there is none
FirstIndex(xs, P(_)) ==
    IF \E i \in 1..Len(xs) : P(xs[i])
    THEN CHOOSE i \in 1..Len(xs) : P(xs[i]) /\ \A j \in 1..(i - 1) : ~P(xs[j])
    ELSE 0

Take(xs, n) == SubSeq(xs, 1, IF Len(xs) < n THEN Len(xs) ELSE n)

(* ------------------------------ catalog -------------------------------- *)
\* columns = dataset_selected.get('columns', [])
ColumnsOf(dataset_selected) == items(get(dataset_selected, "columns", EmptyList))

\* the first catalog column named `name`, JNull when there is none
\* (for col in columns: if col.get('column_name') == name: ...)
ColumnNamed(dataset_selected, name) ==
    LET columns == ColumnsOf(dataset_selected)
        i == FirstIndex(columns, LAMBDA col : get(col, "column_name", JNull) = name)
    IN IF i = 0 THEN JNull ELSE columns[i]

\* hash(name) % 10000: a function of the name alone within one process
PyHashMod(name) == <<"hash", name>>

\* md5(f"{label}_{int(time.time())}") cut into metric_<10>_<13>: a function of
\* the label and of the second in which it is computed
OptionName(label, t) == <<"optionName", PyStr(label), t>>

(* ---------------------------- MetricBuilder ---------------------------- *)
build_column_metadata(column_info) ==
    LET column_name ==
            IF Truthy(get(column_info, "column_name", JNull))
            THEN get(column_info, "column_name", JNull)
            ELSE get(column_info, "id", JStr("unknown_column"))
    IN JDict([advanced_data_type |-> JNull,
              certification_details |-> JNull,
              certified_by |-> JNull,
              column_name |-> column_name,
              description |-> get(column_info, "description", JNull),
              expression |-> get(column_info, "expression", JNull),
              filterable |-> get(column_info, "filterable", JTrue),
              groupby |-> get(column_info, "groupby", JTrue),
              id |-> get(column_info, "id", PyHashMod(get(column_info, "column_name", JStr("")))),
              is_certified |-> JFalse,
              is_dttm |-> get(column_info, "is_dttm", JFalse),
              python_date_format |-> get(column_info, "python_date_format", JNull),
              type |-> get(column_info, "type", JStr("VARCHAR")),
              type_generic |-> get(column_info, "type_generic", JNum(1)),
              verbose_name |-> get(column_info, "verbose_name", JNull),
              warning_markdown |-> JNull])

\* aggregate.upper() raises AttributeError when aggregate is not a string
build_metric_object(aggregate, column_info, label) ==
    IF ~IsStr(aggregate) THEN RAISE
    ELSE JDict([expressionType |-> JStr("SIMPLE"),
                column |-> build_column_metadata(column_info),
                aggregate |-> JStr(Upper(aggregate[2])),
                sqlExpression |-> JNull,
                datasourceWarning |-> JFalse,
                hasCustomLabel |-> JFalse,
                label |-> label,
                optionName |-> OptionName(label, now)])

\* ChartGenerator's copy: no fallback for an empty column_name
CG_build_column_metadata(column_info) ==
    put(build_column_metadata(column_info), "column_name", get(column_info, "column_name", JStr("")))

CG_build_metric_object(aggregate, column_info, label) ==
    IF ~IsStr(aggregate) THEN RAISE
    ELSE JDict([expressionType |-> JStr("SIMPLE"),
                column |-> CG_build_column_metadata(column_info),
                aggregate |-> JStr(Upper(aggregate[2])),
                sqlExpression |-> JNull,
                datasourceWarning |-> JFalse,
                hasCustomLabel |-> JFalse,
                label |-> label,
                optionName |-> OptionName(label, now)])

\* the string branch: count(...), sum(...), avg(...), else a SQL expression
EnhanceStringMetric(build(_, _, _), metric, dataset_selected) ==
    LET m == metric[2]
        columns == ColumnsOf(dataset_selected)
        col_match == PySlice(m, Find(m, "(") + 1, Find(m, ")"))
        col == ColumnNamed(dataset_selected, JStr(col_match))
        fallback == JDict([expressionType |-> JStr("SQL"),
                           sqlExpression |-> metric,
                           label |-> JStr(Upper(m))])
        named(func) ==
            IF col # JNull
            THEN build(JStr(func), col, JStr(func \o "(" \o col_match \o ")"))
            ELSE fallback
    IN IF StartsWith(m, "count")
       THEN IF Contains(m, "(") /\ Contains(m, ")")
            THEN IF col_match = "*"
                 THEN IF Len(columns) > 0
                      THEN build(JStr("COUNT"), columns[1],
                               JStr("COUNT(" \o PyStr(get(columns[1], "column_name", JStr("id"))) \o ")"))
                      ELSE fallback
                 ELSE named("COUNT")
            ELSE fallback
       ELSE IF StartsWith(m, "sum") THEN named("SUM")
       ELSE IF StartsWith(m, "avg") THEN named("AVG")
       ELSE fallback

\* the dict branch
EnhanceDictMetric(build(_, _, _), colmeta(_), metric, dataset_selected) ==
    LET columns == ColumnsOf(dataset_selected)
        aggregate == get(metric, "aggregate", JStr("COUNT"))
        label == get(metric, "label", JStr(PyStr(aggregate) \o "(*)"))
    IN IF has(metric, "column") /\ IsDict(get(metric, "column", JNull))
       THEN IF ~has(metric, "expressionType") \/ ~has(metric, "optionName")
            THEN build(aggregate, get(metric, "column", JNull), label)
            ELSE LET column == get(metric, "column", JNull)
                     col == ColumnNamed(dataset_selected, get(column, "column_name", JStr("")))
                 IN IF ~has(column, "id") /\ col # JNull
                    THEN put(metric, "column", colmeta(col))
                    ELSE metric
       ELSE IF has(metric, "aggregate") /\ ~has(metric, "sqlExpression")
            THEN \* `"(" in label` raises TypeError unless label is a string or a container
                 IF ~(IsStr(label) \/ IsList(label) \/ IsDict(label)) THEN RAISE
                 ELSE LET l == IF IsStr(label) THEN label[2] ELSE ""
                          col_match == PySlice(l, Find(l, "(") + 1, Find(l, ")"))
                          col == ColumnNamed(dataset_selected, JStr(col_match))
                      IN IF Contains(l, "(") /\ Contains(l, ")") /\ col_match # "*" /\ col # JNull
                         THEN build(aggregate, col, label)
                         ELSE IF Len(columns) > 0
                              THEN build(aggregate, columns[1], label)
                              ELSE metric
            ELSE metric

\* the whole resolver, over either copy of build_metric_object / build_column_metadata
EnhanceMetric(build(_, _, _), colmeta(_), metric, dataset_selected) ==
    LET columns == ColumnsOf(dataset_selected)
    IN IF IsStr(metric) THEN EnhanceStringMetric(build, metric, dataset_selected)
       ELSE IF IsDict(metric) THEN EnhanceDictMetric(build, colmeta, metric, dataset_selected)
       ELSE IF Len(columns) > 0
            THEN build(JStr("COUNT"), columns[1],
                     JStr("COUNT(" \o PyStr(get(columns[1], "column_name", JStr("id"))) \o ")"))
            ELSE JDict([expressionType |-> JStr("SQL"),
                        sqlExpression |-> JStr("count(*)"),
                        label |-> JStr("COUNT(*)")])

\* the resolver with the fallback label left as written instead of upper-cased
enhance_metric_keeping_case(metric, dataset_selected) ==
    With(EnhanceMetric(build_metric_object, build_column_metadata, metric, dataset_selected),
         LAMBDA enhanced :
            IF IsStr(metric) /\ IsDict(enhanced)
               /\ get(enhanced, "expressionType", JNull) = JStr("SQL")
            THEN put(enhanced, "label", metric)
            ELSE enhanced)

enhance_metric_with_column_metadata(metric, dataset_selected) ==
    EnhanceMetric(build_metric_object, build_column_metadata, metric, dataset_selected)

CG_enhance_metric_with_column_metadata(metric, dataset_selected) ==
    EnhanceMetric(CG_build_metric_object, CG_build_column_metadata, metric, dataset_selected)

\* [enhance(m) for m in metrics]: the list of enhanced metrics, or RAISE when
\* one of them raises
EnhanceAll(enhance(_, _), metrics, dataset_selected) ==
    LET enhanced == [i \in 1..Len(metrics) |-> enhance(metrics[i], dataset_selected)]
    IN IF \E i \in 1..Len(metrics) : enhanced[i] = RAISE THEN RAISE ELSE JList(enhanced)

(* ----------------------------- CHART_CONFIGS --------------------------- *)
\* CHART_CONFIGS keys
SupportedTypes == {"pie", "table", "echarts_timeseries_bar", "echarts_timeseries_line",
                   "echarts_area", "big_number", "big_number_total", "funnel"}

TimeseriesTypes == {"echarts_timeseries_line", "echarts_timeseries_bar", "echarts_area"}

TemporalFilter(subject) ==
    JDict([clause |-> JStr("WHERE"), subject |-> subject, operator |-> JStr("TEMPORAL_RANGE"),
           comparator |-> JStr("No filter"), expressionType |-> JStr("SIMPLE")])

\* the display defaults shared by the line and area templates and by
\* default_timeseries_params of _validate_timeseries_params
TimeseriesDisplayDefaults ==
    [x_axis_sort_asc |-> JTrue, x_axis_sort_series |-> JStr("name"),
     x_axis_sort_series_ascending |-> JTrue, order_desc |-> JTrue, row_limit |-> JNum(1000),
     truncate_metric |-> JTrue, show_empty_columns |-> JTrue, comparison_type |-> JStr("values"),
     contributionMode |-> JStr("column"), annotation_layers |-> EmptyList,
     forecastPeriods |-> JNum(10), forecastInterval |-> JFloat("0.8"),
     x_axis_title_margin |-> JNum(15), y_axis_title_margin |-> JNum(30),
     y_axis_title_position |-> JStr("Left"), sort_series_type |-> JStr("sum"),
     color_scheme |-> JStr("bnbColors"), time_shift_color |-> JTrue, seriesType |-> JStr("line"),
     only_total |-> JTrue, opacity |-> JFloat("0.2"), markerSize |-> JNum(6),
     show_legend |-> JTrue, legendType |-> JStr("scroll"), legendOrientation |-> JStr("top"),
     x_axis_time_format |-> JStr("smart_date"), rich_tooltip |-> JTrue,
     showTooltipTotal |-> JTrue, tooltipTimeFormat |-> JStr("smart_date"),
     y_axis_format |-> JStr(",.2f"), truncateXAxis |-> JTrue,
     y_axis_bounds |-> JList(<<JNull, JNull>>)]

default_timeseries_params == JDict(TimeseriesDisplayDefaults)

\* CHART_CONFIGS[viz_type]["default_params"]
DefaultParams(viz_type) ==
    CASE viz_type = "pie" ->
            JDict([adhoc_filters |-> EmptyList, color_scheme |-> JStr("d3Category20c"),
                   datasource |-> JStr(""), granularity_sqla |-> JStr(""), groupby |-> EmptyList,
                   innerRadius |-> JNum(30), metric |-> JStr("count(*)"), outerRadius |-> JNum(70),
                   donut |-> JFalse, row_limit |-> JNum(50), show_labels |-> JTrue,
                   show_legend |-> JTrue, show_values |-> JTrue, sort_by_metric |-> JTrue])
      [] viz_type = "table" ->
            JDict([adhoc_filters |-> EmptyList, all_columns |-> EmptyList, datasource |-> JStr(""),
                   granularity_sqla |-> JStr(""), groupby |-> EmptyList, metrics |-> EmptyList,
                   order_by_cols |-> EmptyList, row_limit |-> JNum(1000), show_totals |-> JTrue,
                   table_timestamp_format |-> JStr("%Y-%m-%d %H:%M:%S")])
      [] viz_type = "echarts_timeseries_bar" ->
            JDict([adhoc_filters |-> EmptyList, datasource |-> JStr(""),
                   granularity_sqla |-> JStr(""), x_axis |-> JStr(""), metrics |-> EmptyList,
                   row_limit |-> JNum(10000), sort_by |-> JStr(""), x_axis_sort_asc |-> JTrue,
                   y_axis_format |-> JStr(""), show_legend |-> JTrue, rich_tooltip |-> JTrue,
                   show_controls |-> JTrue])
      [] viz_type = "echarts_timeseries_line" ->
            update(default_timeseries_params,
                   JDict([datasource |-> JStr(""), x_axis |-> JStr(""),
                          time_grain_sqla |-> JStr("P1W"), metrics |-> EmptyList,
                          groupby |-> EmptyList,
                          adhoc_filters |-> JList(<<TemporalFilter(JStr(""))>>)]))
      [] viz_type = "echarts_area" ->
            update(default_timeseries_params,
                   JDict([datasource |-> JStr(""), x_axis |-> JStr(""),
                          time_grain_sqla |-> JStr("P1D"), metrics |-> EmptyList,
                          groupby |-> EmptyList,
                          adhoc_filters |-> JList(<<TemporalFilter(JStr(""))>>),
                          color_scheme |-> JStr("supersetColors"),
                          y_axis_format |-> JStr("SMART_NUMBER")]))
      [] viz_type = "big_number" ->
            JDict([adhoc_filters |-> JList(<<TemporalFilter(JStr("active_date"))>>),
                   datasource |-> JStr(""), metric |-> JStr("count(*)"), x_axis |-> JStr(""),
                   time_grain_sqla |-> JStr("P1D"), show_trend_line |-> JTrue,
                   start_y_axis_at_zero |-> JTrue,
                   color_picker |-> JDict([r |-> JNum(0), g |-> JNum(122), b |-> JNum(135), a |-> JNum(1)]),
                   header_font_size |-> JFloat("0.4"), subheader_font_size |-> JFloat("0.15"),
                   y_axis_format |-> JStr("SMART_NUMBER"), time_format |-> JStr("smart_date"),
                   rolling_type |-> JStr("None"), extra_form_data |-> EmptyDict,
                   dashboards |-> EmptyList])
      [] viz_type = "big_number_total" ->
            JDict([adhoc_filters |-> JList(<<TemporalFilter(JStr("active_date"))>>),
                   datasource |-> JStr(""), metric |-> JStr("count(*)"),
                   header_font_size |-> JFloat("0.4"), subheader_font_size |-> JFloat("0.15"),
                   y_axis_format |-> JStr("SMART_NUMBER"), time_format |-> JStr("smart_date"),
                   extra_form_data |-> EmptyDict, dashboards |-> EmptyList])
      [] viz_type = "funnel" ->
            JDict([adhoc_filters |-> JList(<<TemporalFilter(JStr("active_date"))>>),
                   color_scheme |-> JStr("supersetColors"), datasource |-> JStr(""),
                   groupby |-> EmptyList, metric |-> JStr("count(*)"), row_limit |-> JNum(10),
                   sort_by_metric |-> JTrue, percent_calculation_type |-> JStr("first_step"),
                   show_legend |-> JTrue, legendOrientation |-> JStr("top"),
                   tooltip_label_type |-> JNum(5), number_format |-> JStr("SMART_NUMBER"),
                   show_labels |-> JTrue, show_tooltip_labels |-> JTrue,
                   extra_form_data |-> EmptyDict, dashboards |-> EmptyList])

(* ------------------------ catalog column classes ----------------------- *)
\* 'date' in str(col.get('type', '')).lower() or col.get('is_dttm', False)
IsDateColumn(col) ==
    Contains(Lower(PyStr(get(col, "type", JStr("")))), "date") \/ Truthy(get(col, "is_dttm", JFalse))

\* any(word in col.get('column_name', '').lower() for word in ['date', 'time', 'created', 'updated'])
IsDateNamedColumn(col) ==
    ContainsAny(Lower(PyStr(get(col, "column_name", JStr("")))), {"date", "time", "created", "updated"})

IsNumericColumn(col) ==
    ContainsAny(Lower(PyStr(get(col, "type", JStr("")))), {"int", "float", "decimal", "numeric"})

IsCategoricalColumn(col) ==
    ContainsAny(Lower(PyStr(get(col, "type", JStr("")))), {"varchar", "text", "string", "char"})

\* len(v) raises TypeError unless v is sized
Sized(v) == IsStr(v) \/ IsList(v) \/ IsDict(v)

(* ---------------- ChartValidator: singular-metric families ------------- *)
\* the metric handling shared, line for line, by the pie/funnel, big_number and
\* big_number_total validators
SingularMetric(params, dataset_selected) ==
    IF has(params, "metrics") /\ ~has(params, "metric")
    THEN LET metrics == get(params, "metrics", JNull)
         IN IF IsList(metrics) /\ Len(items(metrics)) > 0
            THEN With(enhance_metric_with_column_metadata(items(metrics)[1], dataset_selected),
                      LAMBDA enhanced :
                        IF enhanced = RAISE THEN RAISE
                        ELSE del(put(params, "metric", enhanced), "metrics"))
            ELSE del(params, "metrics")
    ELSE IF has(params, "metric")
    THEN With(enhance_metric_with_column_metadata(get(params, "metric", JNull), dataset_selected),
              LAMBDA enhanced : IF enhanced = RAISE THEN RAISE ELSE put(params, "metric", enhanced))
    ELSE params

_validate_pie_funnel_params(params, dataset_selected) ==
    SingularMetric(params, dataset_selected)

_validate_big_number_total_params(params, dataset_selected) ==
    SingularMetric(params, dataset_selected)

\* any(f.get("operator") == "TEMPORAL_RANGE" and f.get("subject") == x_axis for f in adhoc_filters):
\* TRUE / FALSE, or RAISE when a non-dict item is met before a match
HasTemporalFilter(filters, x_axis) ==
    LET hit(f) == ~IsDict(f) \/ (get(f, "operator", JNull) = JStr("TEMPORAL_RANGE")
                                 /\ get(f, "subject", JNull) = x_axis)
        i == FirstIndex(filters, hit)
    IN IF i = 0 THEN JFalse ELSE IF ~IsDict(filters[i]) THEN RAISE ELSE JTrue

_validate_big_number_temporal_params(params, dataset_selected) ==
    LET columns == ColumnsOf(dataset_selected)
        date_columns == Filter(columns, IsDateColumn)
        date_named_cols == Filter(columns, IsDateNamedColumn)
        \* 1. x_axis
        p1 == IF ~has(params, "x_axis") \/ ~Truthy(get(params, "x_axis", JNull))
              THEN IF Len(date_columns) > 0
                   THEN put(params, "x_axis", get(date_columns[1], "column_name", JNull))
                   ELSE IF Len(date_named_cols) > 0
                        THEN put(params, "x_axis", get(date_named_cols[1], "column_name", JNull))
                        ELSE params
              ELSE params
        \* 2. time_grain_sqla
        grain(p) == IF ~has(p, "time_grain_sqla") THEN put(p, "time_grain_sqla", JStr("P1D")) ELSE p
        \* 3. the temporal filter on x_axis
        filter(p2) ==
            LET x_axis == get(p2, "x_axis", JNull)
                adhoc_filters == get(p2, "adhoc_filters", EmptyList)
            IN IF ~has(p2, "x_axis") THEN p2
               ELSE IF ~IsList(adhoc_filters) THEN RAISE
               ELSE With(HasTemporalFilter(items(adhoc_filters), x_axis),
                         LAMBDA has_temporal_filter :
                           IF has_temporal_filter = RAISE THEN RAISE
                           ELSE IF has_temporal_filter = JFalse
                                THEN put(p2, "adhoc_filters",
                                         append(adhoc_filters, TemporalFilter(x_axis)))
                                ELSE p2)
    IN With(grain(p1), filter)

_validate_big_number_params(params, dataset_selected) ==
    With(SingularMetric(params, dataset_selected),
         LAMBDA p1 :
           IF p1 = RAISE THEN RAISE
           ELSE IF has(p1, "x_axis") \/ has(p1, "time_grain_sqla")
                THEN _validate_big_number_temporal_params(p1, dataset_selected)
                ELSE p1)

(* ---------------------- timeseries normalisation ----------------------- *)
\* step 1 with the two date-like rules left out: supplied axis, else first column
TsAxis_first_column(params, dataset_selected) ==
    IF has(params, "x_axis") THEN params
    ELSE IF Len(ColumnsOf(dataset_selected)) > 0
         THEN put(params, "x_axis",
                  get(ColumnsOf(dataset_selected)[1], "column_name", JStr("id")))
    ELSE put(params, "x_axis", JStr("id"))

\* step 1: x_axis
TsAxis(params, dataset_selected) ==
    LET columns == ColumnsOf(dataset_selected)
        date_columns == Filter(columns, IsDateColumn)
        date_named_cols == Filter(columns, IsDateNamedColumn)
    IN IF has(params, "x_axis") THEN params
       ELSE IF Len(date_columns) > 0
            THEN put(params, "x_axis", get(date_columns[1], "column_name", JNull))
       ELSE IF Len(date_named_cols) > 0
            THEN put(params, "x_axis", get(date_named_cols[1], "column_name", JNull))
       ELSE IF Len(columns) > 0
            THEN put(params, "x_axis", get(columns[1], "column_name", JStr("id")))
       ELSE put(params, "x_axis", JStr("id"))

\* step 3: metrics
TsMetrics(enhance(_, _), build(_, _, _), params, dataset_selected) ==
    LET columns == ColumnsOf(dataset_selected)
        numeric_cols == Filter(columns, IsNumericColumn)
        first_col == IF Len(columns) > 0 THEN columns[1]
                     ELSE JDict([column_name |-> JStr("id"), type |-> JStr("INTEGER")])
        default_col == IF Len(numeric_cols) > 0 THEN numeric_cols[1] ELSE first_col
        default_agg == IF Len(numeric_cols) > 0 THEN "SUM" ELSE "COUNT"
        default_metric == build(JStr(default_agg), default_col,
                                JStr(default_agg \o "(" \o PyStr(get(default_col, "column_name", JNull)) \o ")"))
    IN IF has(params, "metrics")
       THEN LET metrics == get(params, "metrics", JNull)
                enhanced == EnhanceAll(enhance, items(metrics), dataset_selected)
            IN IF ~IsList(metrics) THEN params
               ELSE IF enhanced = RAISE THEN RAISE
               ELSE put(params, "metrics", enhanced)
       ELSE IF has(params, "metric")
       THEN LET enhanced == enhance(get(params, "metric", JNull), dataset_selected)
            IN IF enhanced = RAISE THEN RAISE
               ELSE del(put(params, "metrics", JList(<<enhanced>>)), "metric")
       ELSE put(params, "metrics", JList(<<default_metric>>))

\* step 4: groupby
TsGroupby(params, dataset_selected) ==
    LET columns == ColumnsOf(dataset_selected)
        categorical_cols == Filter(columns, IsCategoricalColumn)
        x_axis == get(params, "x_axis", JStr(""))
        non_time_categoricals ==
            Filter(categorical_cols, LAMBDA col : get(col, "column_name", JNull) # x_axis)
    IN IF has(params, "groupby") THEN params
       ELSE IF Len(non_time_categoricals) > 0
            THEN put(params, "groupby", JList(<<get(non_time_categoricals[1], "column_name", JNull)>>))
       ELSE put(params, "groupby", EmptyList)

\* steps 5 and 5a: contribution mode.  The scan over the keys takes the first key
\* (in insertion order) holding a valid value; candidates carry at most one
\* such alias key, so the order of the scan does not matter.
TsContribution(params) ==
    LET valid(k) == /\ Contains(Lower(k), "contribution")
                    /\ IsStr(get(params, k, JNull))
                    /\ Lower(get(params, k, JNull)[2]) \in {"column", "row"}
        p1 == IF ~has(params, "contribution_mode") /\ ~has(params, "contributionMode")
              THEN IF \E k \in keys(params) : valid(k)
                   THEN put(params, "contributionMode",
                            JStr(Lower(get(params, CHOOSE k \in keys(params) : valid(k), JNull)[2])))
                   ELSE params
              ELSE IF has(params, "contribution_mode")
                   THEN del(put(params, "contributionMode", get(params, "contribution_mode", JNull)),
                            "contribution_mode")
                   ELSE params
    IN IF has(p1, "contributionMode")
          /\ get(p1, "contributionMode", JNull) \notin {JStr("column"), JStr("row")}
       THEN put(p1, "contributionMode", JStr("column"))
       ELSE p1

\* step 6: fields a timeseries chart does not use
TsDropInvalid(params) == del(del(del(params, "series"), "x_axis_object"), "y_axis")

\* step 7: the temporal filter
TsTemporalFilter(params) ==
    LET x_axis == get(params, "x_axis", JStr(""))
        adhoc_filters == get(params, "adhoc_filters", JNull)
        fs == items(adhoc_filters)
        i == FirstIndex(fs, LAMBDA f : ~IsDict(f) \/ get(f, "operator", JNull) = JStr("TEMPORAL_RANGE"))
    IN IF ~has(params, "adhoc_filters") \/ ~Truthy(adhoc_filters)
       THEN IF Truthy(x_axis)
            THEN put(params, "adhoc_filters", JList(<<TemporalFilter(x_axis)>>))
            ELSE params
       ELSE IF ~Truthy(x_axis) THEN params
       ELSE IF ~IsList(adhoc_filters) THEN RAISE
       ELSE IF i = 0 THEN params
       ELSE IF ~IsDict(fs[i]) THEN RAISE
       ELSE put(params, "adhoc_filters",
                JList([fs EXCEPT ![i] = put(fs[i], "subject", x_axis)]))

\* _validate_timeseries_params, over either copy of the metric resolver
ValidateTimeseries(enhance(_, _), build(_, _, _), params, dataset_selected) ==
    LET p1 == TsAxis(params, dataset_selected)
        p2 == IF ~has(p1, "time_grain_sqla") THEN put(p1, "time_grain_sqla", JStr("P1W")) ELSE p1
        p3 == TsMetrics(enhance, build, p2, dataset_selected)
        p4 == TsGroupby(p3, dataset_selected)
        p5 == TsContribution(p4)
        p6 == setdefaults(TsDropInvalid(p5), default_timeseries_params)
        p7 == TsTemporalFilter(p6)
    IN IF p3 = RAISE THEN RAISE
       ELSE IF p7 = RAISE THEN RAISE
       \* logger.info(... len(validated_params.get('metrics', [])) ...)
       ELSE IF ~Sized(get(p7, "metrics", EmptyList)) THEN RAISE
       ELSE p7

_validate_timeseries_params(params, dataset_selected) ==
    ValidateTimeseries(enhance_metric_with_column_metadata, build_metric_object,
                       params, dataset_selected)

CG_validate_timeseries_params(params, dataset_selected) ==
    ValidateTimeseries(CG_enhance_metric_with_column_metadata, CG_build_metric_object,
                       params, dataset_selected)

(* ------------------------- table normalisation ------------------------- *)
\* columns[:7] of the raw-mode column auto-selection
RawColumnLimit == 7

RECURSIVE StripLeft(_)
StripLeft(s) == IF s # "" /\ CharAt(s, 1) = " " THEN StripLeft(SubSeq(s, 2, Len(s))) ELSE s

RECURSIVE StripRight(_)
StripRight(s) ==
    IF s # "" /\ CharAt(s, Len(s)) = " " THEN StripRight(SubSeq(s, 1, Len(s) - 1)) ELSE s

\* str.strip()
Strip(s) == StripRight(StripLeft(s))

\* date_mappings of _map_single_ordering_term, flattened in iteration order into
\* <<phrase, candidate column>> pairs
date_mappings ==
    << <<"created date", "created_date">>, <<"created date", "created_at">>,
       <<"created date", "date_created">>, <<"created date", "create_date">>,
       <<"updated date", "updated_date">>, <<"updated date", "updated_at">>,
       <<"updated date", "date_updated">>, <<"updated date", "update_date">>,
       <<"order date", "order_date">>, <<"order date", "date_order">>,
       <<"order date", "order_time">>,
       <<"tanggal dibuat", "created_date">>, <<"tanggal dibuat", "tanggal_dibuat">>,
       <<"tanggal dibuat", "created_at">>,
       <<"tanggal", "date">>, <<"tanggal", "tanggal">>, <<"tanggal", "created_date">>,
       <<"tanggal", "order_date">>,
       <<"waktu", "time">>, <<"waktu", "waktu">>, <<"waktu", "created_at">>,
       <<"waktu", "updated_at">> >>

InSeq(x, xs) == \E i \in 1..Len(xs) : xs[i] = x

\* the term mapping with the case-insensitive match tried before the synonyms
\* and the substring match
_map_single_ordering_term_nocase_first(term, column_names) ==
    IF ~IsStr(term) \/ ~Truthy(term) THEN JStr("")
    ELSE
    LET term_lower == Strip(Lower(term[2]))
        synonym == FirstIndex(date_mappings,
                       LAMBDA m : Contains(term_lower, m[1]) /\ InSeq(JStr(m[2]), column_names))
        fuzzy == FirstIndex(column_names,
                       LAMBDA col :
                          /\ (Contains(Lower(col[2]), term_lower)
                                \/ Contains(term_lower, Lower(col[2])))
                          /\ ContainsAny(Lower(col[2]), {"date", "time", "created", "updated",
                                                         "tanggal", "waktu"}))
        nocase == FirstIndex(column_names, LAMBDA col : Lower(col[2]) = term_lower)
    IN IF InSeq(term, column_names) THEN term
       ELSE IF nocase # 0 THEN column_names[nocase]
       ELSE IF synonym # 0 THEN JStr(date_mappings[synonym][2])
       ELSE IF fuzzy # 0 THEN column_names[fuzzy]
       ELSE JStr("")

\* returns the column name (a string value), or JStr("") when the term maps to nothing
_map_single_ordering_term(term, column_names) ==
    IF ~IsStr(term) \/ ~Truthy(term) THEN JStr("")
    ELSE
    LET term_lower == Strip(Lower(term[2]))
        synonym == FirstIndex(date_mappings,
                       LAMBDA m : Contains(term_lower, m[1]) /\ InSeq(JStr(m[2]), column_names))
        fuzzy == FirstIndex(column_names,
                       LAMBDA col :
                          LET col_lower == Lower(col[2])
                          IN /\ (Contains(col_lower, term_lower) \/ Contains(term_lower, col_lower))
                             /\ ContainsAny(col_lower, {"date", "time", "created", "updated",
                                                        "tanggal", "waktu"}))
        nocase == FirstIndex(column_names, LAMBDA col : Lower(col[2]) = term_lower)
    IN IF InSeq(term, column_names) THEN term
       ELSE IF synonym # 0 THEN JStr(date_mappings[synonym][2])
       ELSE IF fuzzy # 0 THEN column_names[fuzzy]
       ELSE IF nocase # 0 THEN column_names[nocase]
       ELSE JStr("")

RECURSIVE MapTerms(_, _, _)
MapTerms(ordering_terms, column_names, mapped_columns) ==
    IF ordering_terms = <<>> THEN mapped_columns
    ELSE With(_map_single_ordering_term(Head(ordering_terms), column_names),
              LAMBDA mapped_col :
                MapTerms(Tail(ordering_terms), column_names,
                         IF Truthy(mapped_col) /\ ~InSeq(mapped_col, mapped_columns)
                         THEN Append(mapped_columns, mapped_col)
                         ELSE mapped_columns))

_map_ordering_terms_to_columns(ordering_terms, column_names) ==
    MapTerms(ordering_terms, column_names, <<>>)

\* the hints one params entry contributes
HintsOf(value) ==
    IF IsStr(value) THEN <<value>>
    ELSE [i \in 1..Len(items(value)) |-> JStr(PyStr(items(value)[i]))]

RECURSIVE HintsFrom(_, _)
\* ordering_hints gathered over the hint keys; candidates carry at most one such
\* key, so the order of params.items() does not matter
HintsFrom(params, ks) ==
    IF ks = {} THEN <<>>
    ELSE LET k == CHOOSE k \in ks : TRUE
         IN HintsOf(get(params, k, JNull)) \o HintsFrom(params, ks \ {k})

\* the elements a `for` loop over v visits (a list, or the characters of a string)
IterItems(v) ==
    IF IsList(v) THEN items(v) ELSE [i \in 1..Len(v[2]) |-> JStr(CharAt(v[2], i))]

_process_table_ordering(params, dataset_selected) ==
    LET columns == ColumnsOf(dataset_selected)
        column_names == [i \in 1..Len(columns) |-> get(columns[i], "column_name", JNull)]
        order_by_cols == get(params, "order_by_cols", EmptyList)
        hint_keys == {k \in keys(params) :
                        /\ Contains(Lower(k), "order")
                        /\ (IsStr(get(params, k, JNull)) \/ IsList(get(params, k, JNull)))
                        /\ Truthy(get(params, k, JNull))}
        order_desc == get(params, "order_desc", JTrue)
        formatted(valid_order_cols) ==
            [i \in 1..Len(valid_order_cols) |->
                JStr("[\"" \o valid_order_cols[i][2] \o "\", "
                     \o (IF ~Truthy(order_desc) THEN "true" ELSE "false") \o "]")]
        \* no order_by_cols: ordering hints mapped to columns
        hinted(order_columns) ==
            IF Len(order_columns) > 0 THEN put(params, "order_by_cols", JList(order_columns))
            ELSE params
        \* order_by_cols given: validated against the column names and formatted
        checked(valid_order_cols) ==
            IF Len(valid_order_cols) > 0
            THEN put(params, "order_by_cols", JList(formatted(valid_order_cols)))
            ELSE put(params, "order_by_cols", EmptyList)
        with_order_desc(p1) ==
            IF p1 = RAISE THEN RAISE
            ELSE IF ~has(p1, "order_desc") THEN put(p1, "order_desc", JTrue)
            ELSE p1
    IN IF ~Truthy(order_by_cols)
       THEN With(With(_map_ordering_terms_to_columns(HintsFrom(params, hint_keys), column_names),
                      hinted),
                 with_order_desc)
       ELSE IF ~(IsList(order_by_cols) \/ IsStr(order_by_cols)) THEN RAISE
       ELSE With(With(Filter([i \in 1..Len(IterItems(order_by_cols)) |->
                                 _map_single_ordering_term(IterItems(order_by_cols)[i],
                                                           column_names)],
                             Truthy),
                      checked),
                 with_order_desc)

\* aggregate mode of _validate_table_params
TableAggregate(params, dataset_selected) ==
    LET columns == ColumnsOf(dataset_selected)
        \* metric -> metrics, each metric enhanced
        enhanced_metrics ==
            IF has(params, "metric") /\ ~has(params, "metrics")
            THEN With(enhance_metric_with_column_metadata(get(params, "metric", JNull),
                                                          dataset_selected),
                      LAMBDA enhanced :
                        IF enhanced = RAISE THEN RAISE
                        ELSE del(put(params, "metrics", JList(<<enhanced>>)), "metric"))
            ELSE IF has(params, "metrics") /\ IsList(get(params, "metrics", JNull))
            THEN With(EnhanceAll(enhance_metric_with_column_metadata,
                                 items(get(params, "metrics", JNull)), dataset_selected),
                      LAMBDA enhanced :
                        IF enhanced = RAISE THEN RAISE ELSE put(params, "metrics", enhanced))
            ELSE params
        \* percent_metrics = metrics.copy(); timeseries_limit_metric = metrics[0]
        limit_metric(q, metrics) ==
            IF has(q, "timeseries_limit_metric") THEN q
            ELSE put(q, "timeseries_limit_metric", IterItems(metrics)[1])
        percent_metrics(p1) ==
            LET metrics == get(p1, "metrics", JNull)
            IN IF p1 = RAISE THEN RAISE
               ELSE IF ~(has(p1, "metrics") /\ Truthy(metrics)) THEN p1
               ELSE IF ~has(p1, "percent_metrics") /\ ~(IsList(metrics) \/ IsDict(metrics))
                    THEN RAISE
               ELSE IF ~has(p1, "timeseries_limit_metric")
                       /\ ~(IsList(metrics) \/ IsStr(metrics))
                    THEN RAISE
               ELSE limit_metric(IF has(p1, "percent_metrics") THEN p1
                                 ELSE put(p1, "percent_metrics", metrics), metrics)
        date_columns == Filter(columns, IsDateColumn)
        date_named_cols == Filter(columns, IsDateNamedColumn)
        temporal_lookup ==
            IF Len(date_columns) > 0
            THEN put(EmptyDict, PyStr(get(date_columns[1], "column_name", JNull)), JTrue)
            ELSE IF Len(date_named_cols) > 0
                 THEN put(EmptyDict, PyStr(get(date_named_cols[1], "column_name", JNull)), JTrue)
                 ELSE EmptyDict
        temporal_columns(p2) ==
            IF p2 = RAISE THEN RAISE
            ELSE IF ~has(p2, "temporal_columns_lookup")
                 THEN put(p2, "temporal_columns_lookup", temporal_lookup)
                 ELSE p2
    IN With(With(enhanced_metrics, percent_metrics), temporal_columns)

\* raw mode selecting every catalog column instead of the first RawColumnLimit
TableRaw_all_columns(params, dataset_selected) ==
    With(_process_table_ordering(
            IF ~has(params, "columns") \/ ~Truthy(get(params, "columns", JNull))
            THEN put(params, "columns",
                     JList([i \in 1..Len(ColumnsOf(dataset_selected)) |->
                               get(ColumnsOf(dataset_selected)[i], "column_name", JNull)]))
            ELSE params,
            dataset_selected),
         LAMBDA p2 :
           IF p2 = RAISE THEN RAISE
           ELSE put(put(put(p2, "groupby", EmptyList), "metrics", EmptyList),
                    "all_columns", get(p2, "columns", EmptyList)))

\* raw mode of _validate_table_params
TableRaw(params, dataset_selected) ==
    LET columns == ColumnsOf(dataset_selected)
        first == Take(columns, RawColumnLimit)
        column_names == [i \in 1..Len(first) |-> get(first[i], "column_name", JNull)]
        p1 == IF ~has(params, "columns") \/ ~Truthy(get(params, "columns", JNull))
              THEN put(params, "columns", JList(column_names))
              ELSE params
    IN With(_process_table_ordering(p1, dataset_selected),
            LAMBDA p2 :
              IF p2 = RAISE THEN RAISE
              ELSE put(put(put(p2, "groupby", EmptyList), "metrics", EmptyList),
                       "all_columns", get(p2, "columns", EmptyList)))

_validate_table_params(params, dataset_selected) ==
    LET query_mode == get(params, "query_mode", JStr("aggregate"))
    IN With(IF query_mode = JStr("aggregate") THEN TableAggregate(params, dataset_selected)
            ELSE TableRaw(params, dataset_selected),
            LAMBDA p :
              IF p = RAISE THEN RAISE
              \* logger.info(... len(validated_params.get('columns', [])) ... len(... 'metrics' ...))
              ELSE IF ~Sized(get(p, "columns", EmptyList)) \/ ~Sized(get(p, "metrics", EmptyList))
                   THEN RAISE
              ELSE p)

(* ------------------- validate_params_by_chart_type --------------------- *)
validate_params_by_chart_type(params, chart_type, dataset_selected) ==
    IF chart_type \in {"pie", "funnel"} THEN _validate_pie_funnel_params(params, dataset_selected)
    ELSE IF chart_type \in TimeseriesTypes THEN _validate_timeseries_params(params, dataset_selected)
    ELSE IF chart_type = "big_number" THEN _validate_big_number_params(params, dataset_selected)
    ELSE IF chart_type = "big_number_total"
         THEN _validate_big_number_total_params(params, dataset_selected)
    ELSE IF chart_type = "table" THEN _validate_table_params(params, dataset_selected)
    ELSE params

\* ChartGenerator's copy: big_number goes to the plural field, table has no modes
CG_validate_params_by_chart_type(params, chart_type, dataset_selected) ==
    LET plural(enhanceList) ==
            IF has(params, "metric") /\ ~has(params, "metrics")
            THEN With(CG_enhance_metric_with_column_metadata(get(params, "metric", JNull),
                                                             dataset_selected),
                      LAMBDA enhanced :
                        IF enhanced = RAISE THEN RAISE
                        ELSE del(put(params, "metrics", JList(<<enhanced>>)), "metric"))
            ELSE IF enhanceList /\ has(params, "metrics") /\ IsList(get(params, "metrics", JNull))
            THEN With(EnhanceAll(CG_enhance_metric_with_column_metadata,
                                 items(get(params, "metrics", JNull)), dataset_selected),
                      LAMBDA enhanced :
                        IF enhanced = RAISE THEN RAISE ELSE put(params, "metrics", enhanced))
            ELSE params
    IN IF chart_type \in {"pie", "funnel"}
       THEN IF has(params, "metrics") /\ ~has(params, "metric")
            THEN LET metrics == get(params, "metrics", JNull)
                 IN IF IsList(metrics) /\ Len(items(metrics)) > 0
                    THEN With(CG_enhance_metric_with_column_metadata(items(metrics)[1],
                                                                     dataset_selected),
                              LAMBDA enhanced :
                                IF enhanced = RAISE THEN RAISE
                                ELSE del(put(params, "metric", enhanced), "metrics"))
                    ELSE del(params, "metrics")
            ELSE IF has(params, "metric")
            THEN With(CG_enhance_metric_with_column_metadata(get(params, "metric", JNull),
                                                             dataset_selected),
                      LAMBDA enhanced :
                        IF enhanced = RAISE THEN RAISE ELSE put(params, "metric", enhanced))
            ELSE params
       ELSE IF chart_type \in TimeseriesTypes
            THEN CG_validate_timeseries_params(params, dataset_selected)
       ELSE IF chart_type = "table" THEN plural(TRUE)
       ELSE IF chart_type \in {"big_number", "big_number_total"} THEN plural(FALSE)
       ELSE params

(* ------------------------- json.dumps / json.loads --------------------- *)
\* json.dumps(v): the string holding the JSON text of v.  The text itself is not
\* spelled out (it depends on dict insertion order, which is not modelled); the
\* value is tagged so that an encoded string is never equal to the object it encodes.
Dumps(v) == <<"jsonstr", v>>

IsJsonString(v) == v[1] = "jsonstr"

\* isinstance(v, str): a string built by json.dumps or one the candidate supplied
IsPyStr(v) == IsStr(v) \/ IsJsonString(v)

AllDigits(s) == s # "" /\ \A i \in 1..Len(s) : Contains(Digits, CharAt(s, i))

RECURSIVE StrToInt(_)
StrToInt(s) ==
    IF s = "" THEN 0
    ELSE 10 * StrToInt(SubSeq(s, 1, Len(s) - 1))
         + (CHOOSE d \in 0..9 : CharAt(Digits, d + 1) = CharAt(s, Len(s)))

\* json.loads(v) on a string: the scalar and empty-container texts are parsed,
\* every other candidate-supplied text is not JSON and raises JSONDecodeError
Loads(v) ==
    IF IsJsonString(v) THEN v[2]
    ELSE LET s == Strip(v[2])
         IN CASE s = "null" -> JNull
              [] s = "true" -> JTrue
              [] s = "false" -> JFalse
              [] s = "{}" -> EmptyDict
              [] s = "[]" -> EmptyList
              [] AllDigits(s) -> JNum(StrToInt(s))
              [] OTHER -> RAISE

(* ---------------------- ChartValidator.validate_ai_response ------------ *)
\* the "minimal valid config" of the except branch
FallbackConfig(dataset_selected) ==
    JDict([k \in {"viz_type", "slice_name", "datasource_id", "datasource_type", "params"} |->
        CASE k = "viz_type" -> JStr("table")
          [] k = "slice_name" ->
                JStr("Generated Chart - "
                     \o PyStr(get(dataset_selected, "table_name", JStr("Unknown"))))
          [] k = "datasource_id" -> get(dataset_selected, "id", JNull)
          [] k = "datasource_type" -> JStr("table")
          [] k = "params" ->
                Dumps(JDict([p \in {"datasource", "viz_type"} |->
                    IF p = "datasource"
                    THEN JStr(PyStr(get(dataset_selected, "id", JNull)) \o "__table")
                    ELSE JStr("table")]))])

\* `viz_type not in CHART_CONFIGS` hashes viz_type: TypeError on a list or dict
Hashable(v) == ~(IsList(v) \/ IsDict(v))

\* the try block of validate_ai_response, parameterised by the params validator;
\* RAISE when an exception escapes the block
TryValidate(validate(_, _, _), ai_response, dataset_selected) ==
    IF ~IsDict(ai_response) THEN RAISE
    ELSE
    LET given == get(ai_response, "viz_type", JNull)
        known == IsStr(given) /\ given[2] \in SupportedTypes
        viz_type == IF known THEN given[2] ELSE "table"
        datasource_id(r) ==
            IF has(r, "datasource_id") THEN r
            ELSE put(r, "datasource_id", get(dataset_selected, "id", JNull))
        slice_name(r) ==
            IF has(r, "slice_name") THEN r
            ELSE put(r, "slice_name",
                     JStr("Generated Chart - "
                          \o PyStr(get(dataset_selected, "table_name", JStr("Unknown")))))
        chart_type(r) == IF known THEN r ELSE put(r, "viz_type", JStr("table"))
        params(r) ==
            IF has(r, "params") /\ IsDict(get(r, "params", JNull))
            THEN With(validate(get(r, "params", JNull), viz_type, dataset_selected),
                      LAMBDA validated_params :
                        IF validated_params = RAISE THEN RAISE
                        ELSE put(r, "params", Dumps(validated_params)))
            ELSE IF ~has(r, "params")
            THEN put(r, "params",
                     Dumps(put(DefaultParams(viz_type), "datasource",
                               JStr(PyStr(get(dataset_selected, "id", JNull)) \o "__table"))))
            ELSE r
        datasource_type(r) ==
            IF r = RAISE THEN RAISE
            ELSE IF has(r, "datasource_type") THEN r
            ELSE put(r, "datasource_type", JStr("table"))
    IN IF ~Hashable(given) THEN RAISE
       ELSE With(With(chart_type(slice_name(datasource_id(ai_response))), params),
                 datasource_type)

\* for field in ["dataset_id", "table_name"]: del ai_response[field]
\* the configuration with the invalid fields left in
KeepInvalidFields(config) == config

RemoveInvalidFields(config) == del(del(config, "dataset_id"), "table_name")

\* validate_ai_response with the try/except taken away: the exception reaches the caller
validate_ai_response_unguarded(ai_response, dataset_selected) ==
    With(TryValidate(validate_params_by_chart_type, ai_response, dataset_selected),
         LAMBDA r : IF r = RAISE THEN RAISE ELSE RemoveInvalidFields(r))

validate_ai_response(ai_response, dataset_selected) ==
    With(TryValidate(validate_params_by_chart_type, ai_response, dataset_selected),
         LAMBDA r : IF r = RAISE THEN FallbackConfig(dataset_selected) ELSE RemoveInvalidFields(r))

(* --------------------------- query-plan builders ----------------------- *)
\* The builders mutate the query dict they are handed.  A builder returns the
\* record [q |-> the query as mutated so far, ok |-> FALSE iff an exception left it].
Done(q) == [q |-> q, ok |-> TRUE]
Fail(q) == [q |-> q, ok |-> FALSE]
Then(s, step(_)) == IF s.ok THEN step(s.q) ELSE s

ABSENT == <<"absent">>

\* `if k in params: ... params[k]`: the value, ABSENT, or RAISE (`in` on a value
\* that is no container; subscripting a list or str with a str key)
Lookup(params, k) ==
    CASE IsDict(params) -> get(params, k, ABSENT)
      [] IsList(params) -> IF InSeq(JStr(k), items(params)) THEN RAISE ELSE ABSENT
      [] IsStr(params) -> IF Contains(params[2], k) THEN RAISE ELSE ABSENT
      [] OTHER -> RAISE

Present(v) == v # ABSENT /\ v # RAISE

RECURSIVE KeySeq(_)
KeySeq(ks) ==
    IF ks = {} THEN <<>>
    ELSE LET k == CHOOSE k \in ks : TRUE IN <<JStr(k)>> \o KeySeq(ks \ {k})

Iterable(v) == IsList(v) \/ IsStr(v) \/ IsDict(v)

\* the elements `for x in v` visits
Iter(v) == IF IsDict(v) THEN KeySeq(keys(v)) ELSE IterItems(v)

\* the key under which json.dumps writes a dict key
JsonKey(v) ==
    CASE IsStr(v) -> v[2]
      [] IsNull(v) -> "null"
      [] IsBool(v) -> IF v[2] THEN "true" ELSE "false"
      [] OTHER -> PyStr(v)

BaseAxis(time_grain, x_axis, expressionType) ==
    JDict([k \in {"timeGrain", "columnType", "sqlExpression", "label", "expressionType"} |->
        CASE k = "timeGrain" -> time_grain
          [] k = "columnType" -> JStr("BASE_AXIS")
          [] k = "expressionType" -> JStr(expressionType)
          [] OTHER -> x_axis])

\* {"col": col, "op": "TEMPORAL_RANGE", "val": "No filter"}
PlanTemporalFilter(col) ==
    JDict([k \in {"col", "op", "val"} |->
        CASE k = "col" -> col
          [] k = "op" -> JStr("TEMPORAL_RANGE")
          [] OTHER -> JStr("No filter")])

\* query["filters"].append(f): in place, on the list the query already holds
AppendFilter(q, f) == put(q, "filters", append(get(q, "filters", EmptyList), f))

\* query["extras"]["time_grain_sqla"] = v: in place, on the dict the query already holds
SetTimeGrain(q, v) == put(q, "extras", put(get(q, "extras", EmptyDict), "time_grain_sqla", v))

MeanOperator == put(EmptyDict, "operator", JStr("mean"))
Flatten == put(EmptyDict, "operation", JStr("flatten"))
Operation(name, options) == put(put(EmptyDict, "operation", JStr(name)), "options", options)

\* pivot step of a post_processing pipeline
Pivot(index, columns, aggregates, drop_missing) ==
    Operation("pivot",
        JDict([k \in {"index", "columns", "aggregates", "drop_missing_columns"} |->
            CASE k = "index" -> JList(<<index>>)
              [] k = "columns" -> columns
              [] k = "aggregates" -> aggregates
              [] OTHER -> JBool(drop_missing)]))

\* the metrics that contribute a label: dicts carrying "label", and strings
Labelled(metric) == (IsDict(metric) /\ has(metric, "label")) \/ IsStr(metric)
LabelOf(metric) == IF IsDict(metric) THEN get(metric, "label", JNull) ELSE metric

RECURSIVE MetricLabels(_)
\* metric_labels[label] = {"operator": "mean"} over the labelled metrics, in order
MetricLabels(labels) ==
    IF labels = <<>> THEN EmptyDict
    ELSE put(MetricLabels(SubSeq(labels, 1, Len(labels) - 1)),
             JsonKey(labels[Len(labels)]), MeanOperator)

\* steps 1-5 of build_timeseries_query_context
TsPlanColumns(query, params, dataset_selected) ==
    LET metrics == Lookup(params, "metrics")
        x_axis == Lookup(params, "x_axis")
        groupby == Lookup(params, "groupby")
        time_grain_sqla == Lookup(params, "time_grain_sqla")
        time_grain == get(params, "time_grain_sqla", JStr("P1W"))
        info == ColumnNamed(dataset_selected, x_axis)
        column == JDict([k \in {"column_name", "type", "is_dttm", "python_date_format",
                                "description", "filterable", "groupby", "verbose_name"} |->
                    CASE k = "column_name" -> get(info, "column_name", JNull)
                      [] k = "type" -> get(info, "type", JNull)
                      [] k = "is_dttm" -> get(info, "is_dttm", JTrue)
                      [] k = "python_date_format" -> get(info, "python_date_format", JStr("mixed"))
                      [] k = "description" -> get(info, "description", JStr(""))
                      [] k = "filterable" -> get(info, "filterable", JTrue)
                      [] k = "groupby" -> get(info, "groupby", JTrue)
                      [] OTHER -> get(info, "verbose_name", x_axis)])
        time_column == IF IsDict(info) /\ Truthy(info)
                       THEN put(BaseAxis(time_grain, x_axis, "SIMPLE"), "column", column)
                       ELSE BaseAxis(time_grain, x_axis, "SIMPLE")
        q1 == IF Present(metrics) THEN put(query, "metrics", metrics) ELSE query
        columns == (IF Present(x_axis) THEN <<time_column>> ELSE <<>>)
                   \o (IF Present(groupby) THEN Iter(groupby) ELSE <<>>)
        q2 == put(q1, "columns", JList(columns))
        q3 == IF Present(groupby) /\ Truthy(groupby) THEN put(q2, "series_columns", groupby) ELSE q2
        q4 == IF Present(time_grain_sqla) THEN SetTimeGrain(q3, time_grain_sqla) ELSE q3
        q5 == IF Present(x_axis) THEN AppendFilter(q4, PlanTemporalFilter(x_axis)) ELSE q4
    IN IF metrics = RAISE THEN Fail(query)
       ELSE IF x_axis = RAISE \/ groupby = RAISE THEN Fail(q1)
       ELSE IF Present(groupby) /\ ~Iterable(groupby) THEN Fail(q1)
       ELSE IF time_grain_sqla = RAISE THEN Fail(q3)
       ELSE Done(q5)

\* step 6 of build_timeseries_query_context: the pivot / rename / contribution pipeline
TsPlanPostProcessing(query, params) ==
    IF ~IsDict(params) THEN Fail(query)
    ELSE
    LET x_axis == get(params, "x_axis", JStr(""))
        groupby == get(params, "groupby", EmptyList)
        metrics == get(params, "metrics", EmptyList)
        labelled == Filter(Iter(metrics), Labelled)
        labels == [i \in 1..Len(labelled) |-> LabelOf(labelled[i])]
        metric_labels == MetricLabels(labels)
        first == JsonKey(labels[1])
        rename == Operation("rename",
                     JDict([k \in {"columns", "level", "inplace"} |->
                        CASE k = "columns" ->
                                put(EmptyDict, first,
                                    IF Cardinality(keys(metric_labels)) = 1 THEN JNull
                                    ELSE JStr(first))
                          [] k = "level" -> JNum(0)
                          [] OTHER -> JTrue]))
        contribution == Operation("contribution",
                     JDict([k \in {"orientation", "time_shifts"} |->
                        IF k = "orientation" THEN get(params, "contributionMode", JStr("column"))
                        ELSE EmptyList]))
    IN IF ~(Truthy(groupby) /\ Truthy(metrics)) THEN Done(query)
       ELSE IF ~Iterable(metrics) THEN Fail(query)
       ELSE IF \E i \in 1..Len(labels) : ~Hashable(labels[i]) THEN Fail(query)
       ELSE IF Len(labels) = 0 THEN Fail(query)
       ELSE Done(put(query, "post_processing",
                     JList(<<Pivot(x_axis, groupby, metric_labels, FALSE), rename,
                             contribution, Flatten>>)))

build_timeseries_query_context(query, params, dataset_selected) ==
    Then(TsPlanColumns(query, params, dataset_selected), LAMBDA q : TsPlanPostProcessing(q, params))

\* ChartGenerator carries a line-for-line copy
CG_build_timeseries_query_context(query, params, dataset_selected) ==
    Then(TsPlanColumns(query, params, dataset_selected), LAMBDA q : TsPlanPostProcessing(q, params))

build_big_number_temporal_query_context(query, params, dataset_selected) ==
    LET x == Lookup(params, "x_axis")
        time_grain == get(params, "time_grain_sqla", JStr("P1D"))
        info == ColumnNamed(dataset_selected, x)
        q1 == IF IsDict(info) /\ Truthy(info)
              THEN put(query, "columns", JList(<<BaseAxis(time_grain, x, "SQL")>>))
              ELSE query
        q2 == IF Present(x) THEN AppendFilter(SetTimeGrain(q1, time_grain), PlanTemporalFilter(x))
              ELSE query
        x_axis == get(params, "x_axis", JStr(""))
        metrics == get(params, "metric", EmptyDict)
        metric_label == IF IsDict(metrics) THEN get(metrics, "label", JStr("metric"))
                        ELSE JStr(PyStr(metrics))
    IN IF x = RAISE \/ ~IsDict(params) THEN Fail(query)
       ELSE IF ~(Truthy(x_axis) /\ Truthy(metrics)) THEN Done(q2)
       ELSE IF ~Hashable(metric_label) THEN Fail(q2)
       ELSE Done(put(q2, "post_processing",
                     JList(<<Pivot(x_axis, EmptyList,
                                   put(EmptyDict, JsonKey(metric_label), MeanOperator), TRUE),
                             Flatten>>)))

\* aggregate mode of build_table_query_context
TablePlanAggregate(query, params) ==
    LET groupby == get(params, "groupby", JNull)
        metrics == get(params, "metrics", JNull)
        limit == get(params, "timeseries_limit_metric", JNull)
        percent == get(params, "percent_metrics", JNull)
        lookup == get(params, "temporal_columns_lookup", JNull)
        q1 == IF Truthy(groupby) THEN put(query, "columns", groupby) ELSE query
        q2 == IF Truthy(metrics) THEN put(q1, "metrics", metrics) ELSE q1
        primary_metric == IterItems(metrics)[1]
        q3 == IF Truthy(metrics)
              THEN put(put(q2, "orderby", JList(<<JList(<<primary_metric, JFalse>>)>>)),
                       "series_limit_metric", IF Truthy(limit) THEN limit ELSE primary_metric)
              ELSE q2
        labelled == Filter(Iter(percent), Labelled)
        metric_columns == [i \in 1..Len(labelled) |-> LabelOf(labelled[i])]
        rename_columns == [i \in 1..Len(labelled) |->
                              JStr("%" \o PyStr(LabelOf(labelled[i])))]
        contribution == Operation("contribution",
                            JDict([k \in {"columns", "rename_columns"} |->
                                IF k = "columns" THEN JList(metric_columns)
                                ELSE JList(rename_columns)]))
        q4 == IF Truthy(percent) /\ Len(labelled) > 0
              THEN put(q3, "post_processing", JList(<<contribution>>))
              ELSE q3
        enabled == {k \in keys(lookup) : Truthy(get(lookup, k, JNull))}
        \* candidates enable at most one column, so the first enabled entry is that one
        col_name == CHOOSE k \in enabled : TRUE
        q5 == IF Truthy(lookup) /\ enabled # {}
              THEN LET q == AppendFilter(q4, PlanTemporalFilter(JStr(col_name)))
                   IN IF has(params, "time_grain_sqla")
                      THEN SetTimeGrain(q, get(params, "time_grain_sqla", JNull))
                      ELSE q
              ELSE q4
    IN IF Truthy(metrics) /\ ~Sized(metrics) THEN Fail(q2)
       ELSE IF Truthy(metrics) /\ IsDict(metrics) THEN Fail(q2)
       ELSE IF Truthy(percent) /\ ~Iterable(percent) THEN Fail(q3)
       ELSE IF Truthy(lookup) /\ ~IsDict(lookup) THEN Fail(q4)
       ELSE Done(q5)

\* raw mode of build_table_query_context
TablePlanRaw(query, params) ==
    LET columns == get(params, "columns", JNull)
        q1 == put(put(query, "metrics", JList(<<JStr("count(*)")>>)), "columns", EmptyList)
        cols == Iter(columns)
        date_columns == Filter(cols, LAMBDA col : ContainsAny(Lower(col[2]), {"date", "time"}))
        time_column == BaseAxis(get(params, "time_grain_sqla", JStr("P1D")), date_columns[1], "SQL")
        q2 == put(put(q1, "columns", JList(<<time_column>>)), "post_processing",
                  JList(<<Pivot(date_columns[1], EmptyList,
                                put(EmptyDict, "Total Saldo", MeanOperator), TRUE),
                          Flatten>>))
    IN IF ~Truthy(columns) THEN Done(query)
       ELSE IF ~Iterable(columns) THEN Fail(q1)
       ELSE IF \E i \in 1..Len(cols) : ~IsStr(cols[i]) THEN Fail(q1)
       ELSE IF Len(date_columns) > 0 THEN Done(q2)
       ELSE Done(q1)

build_table_query_context(query, params, dataset_selected) ==
    IF ~IsDict(params) THEN Fail(query)
    ELSE LET s == IF get(params, "query_mode", JStr("aggregate")) = JStr("aggregate")
                  THEN TablePlanAggregate(query, params)
                  ELSE TablePlanRaw(query, params)
             \* logger.info(... len(query.get('columns', [])) ... len(query.get('metrics', [])) ...)
             logged(q) == IF Sized(get(q, "columns", EmptyList)) /\ Sized(get(q, "metrics", EmptyList))
                          THEN Done(q) ELSE Fail(q)
         IN Then(s, logged)

\* singular branch: query["metrics"] from params["metric"], else params["metrics"]
PlanSingularMetrics(query, params) ==
    LET metric == Lookup(params, "metric")
        metrics == Lookup(params, "metrics")
    IN IF metric = RAISE THEN Fail(query)
       ELSE IF Present(metric) THEN Done(put(query, "metrics", JList(<<metric>>)))
       ELSE IF metrics = RAISE THEN Fail(query)
       ELSE IF Present(metrics) THEN Done(put(query, "metrics", metrics))
       ELSE Done(put(query, "metrics", JList(<<JStr("count(*)")>>)))

\* plural branch of the remaining chart types
PlanPluralMetrics(query, params) ==
    LET metrics == Lookup(params, "metrics")
        validated_metrics ==
            [i \in 1..Len(items(metrics)) |->
                IF IsStr(items(metrics)[i]) \/ IsDict(items(metrics)[i]) THEN items(metrics)[i]
                ELSE JStr("count(*)")]
    IN IF metrics = RAISE THEN Fail(query)
       ELSE IF Present(metrics) /\ IsList(metrics) /\ Len(items(metrics)) > 0
            THEN Done(put(query, "metrics", JList(validated_metrics)))
       ELSE Done(put(query, "metrics", JList(<<JStr("count(*)")>>)))

\* if "groupby" in params: query["columns"] = ...; if "row_limit" in params: query["row_limit"] = ...
PlanTrailer(query, params) ==
    LET groupby == Lookup(params, "groupby")
        row_limit == Lookup(params, "row_limit")
        q1 == IF Present(groupby) THEN put(query, "columns", groupby) ELSE query
    IN IF groupby = RAISE THEN Fail(query)
       ELSE IF row_limit = RAISE THEN Fail(q1)
       ELSE IF Present(row_limit) THEN Done(put(q1, "row_limit", row_limit))
       ELSE Done(q1)

\* the value constants.py binds DEFAULT_QUERY_CONTEXT to at import
InitialQueryContext ==
    JDict([k \in {"datasource", "force", "queries", "result_format", "result_type"} |->
        CASE k = "datasource" -> put(put(EmptyDict, "id", JNull), "type", JStr("table"))
          [] k = "force" -> JFalse
          [] k = "result_format" -> JStr("json")
          [] k = "result_type" -> JStr("full")
          [] OTHER -> JList(<<JDict(
                [q \in {"time_range", "granularity", "filters", "extras", "applied_time_extras",
                        "columns", "metrics", "orderby", "annotation_layers", "row_limit",
                        "timeseries_limit", "order_desc", "url_params", "custom_params",
                        "custom_form_data"} |->
                    CASE q = "time_range" -> JStr("No filter")
                      [] q = "granularity" -> JStr("ds")
                      [] q = "extras" -> put(put(EmptyDict, "having", JStr("")), "where", JStr(""))
                      [] q \in {"filters", "columns", "metrics", "orderby", "annotation_layers"} ->
                            EmptyList
                      [] q = "row_limit" -> JNum(10000)
                      [] q = "timeseries_limit" -> JNum(0)
                      [] q = "order_desc" -> JTrue
                      [] OTHER -> EmptyDict])>>)])

\* DEFAULT_QUERY_CONTEXT.copy() is shallow: "datasource" and queries[0] of the copy
\* are the objects of the module-level dict, so these writes land in the shared value
Query(context) == items(get(context, "queries", EmptyList))[1]
SetQuery(context, q) == put(context, "queries", JList(<<q>>))
SetDatasourceId(context, dataset_selected) ==
    put(context, "datasource",
        put(get(context, "datasource", EmptyDict), "id", get(dataset_selected, "id", JNull)))

\* the try block and except clause of generate_query_context, from the shared
\* context as it stands; branch(q, params, viz_type, dataset) is the chart-type dispatch
PlanSteps(branch(_, _, _, _), context, chart_config, dataset_selected) ==
    LET raw == get(chart_config, "params", JNull)
        params == IF IsPyStr(raw) THEN Loads(raw) ELSE get(chart_config, "params", EmptyDict)
        viz_type == get(chart_config, "viz_type", JStr("table"))
    IN IF params = RAISE THEN Fail(Query(context))
       ELSE Then(branch(Query(context), params, viz_type, dataset_selected),
                 LAMBDA q : PlanTrailer(q, params))

\* generate_query_context from the shared context as it stands: the except clause
\* writes the count(*) fallback into whatever the try block left behind
PlanBody(branch(_, _, _, _), context, chart_config, dataset_selected) ==
    With(PlanSteps(branch, context, chart_config, dataset_selected),
         LAMBDA s : SetQuery(context,
                             IF s.ok THEN s.q
                             ELSE put(s.q, "metrics", JList(<<JStr("count(*)")>>))))

TimeseriesTags == {JStr(t) : t \in TimeseriesTypes}

\* chart-type dispatch of QueryContextBuilder.generate_query_context
PlanByChartType(query, params, viz_type, dataset_selected) ==
    IF viz_type \in {JStr("pie"), JStr("funnel"), JStr("big_number"), JStr("big_number_total")}
    THEN Then(PlanSingularMetrics(query, params),
              LAMBDA q : IF /\ viz_type = JStr("big_number")
                            /\ Lookup(params, "x_axis") # ABSENT
                            /\ Lookup(params, "time_grain_sqla") # ABSENT
                         THEN build_big_number_temporal_query_context(q, params, dataset_selected)
                         ELSE Done(q))
    ELSE IF viz_type \in TimeseriesTags
         THEN build_timeseries_query_context(query, params, dataset_selected)
    ELSE IF viz_type = JStr("table") THEN build_table_query_context(query, params, dataset_selected)
    ELSE PlanPluralMetrics(query, params)

\* chart-type dispatch of ChartGenerator._generate_query_context
CG_PlanByChartType(query, params, viz_type, dataset_selected) ==
    IF viz_type \in {JStr("pie"), JStr("funnel")} THEN PlanSingularMetrics(query, params)
    ELSE IF viz_type \in TimeseriesTags
         THEN CG_build_timeseries_query_context(query, params, dataset_selected)
    ELSE PlanPluralMetrics(query, params)

\* QueryContextBuilder.generate_query_context as a function of the shared context:
\* the value it returns, which is also the value it leaves behind in the shared dict
generate_query_context(context, chart_config, dataset_selected) ==
    PlanBody(PlanByChartType, SetDatasourceId(context, dataset_selected), chart_config,
             dataset_selected)

\* the try block of generate_query_context ran to its end without an exception
plan_reconstructed(context, chart_config, dataset_selected) ==
    PlanSteps(PlanByChartType, SetDatasourceId(context, dataset_selected), chart_config,
              dataset_selected).ok

CG_generate_query_context(context, chart_config, dataset_selected) ==
    PlanBody(CG_PlanByChartType, SetDatasourceId(context, dataset_selected), chart_config,
             dataset_selected)

(* ------------------ ChartGenerator._validate_ai_response --------------- *)
\* returns the configuration and the value the call leaves in the shared
\* DEFAULT_QUERY_CONTEXT (the plan is built only when the candidate brings none)
CG_validate_ai_response(context, ai_response, dataset_selected) ==
    With(TryValidate(CG_validate_params_by_chart_type, ai_response, dataset_selected),
         LAMBDA r :
           IF r = RAISE THEN [config |-> FallbackConfig(dataset_selected), context |-> context]
           ELSE IF ~has(r, "query_context")
                THEN With(CG_generate_query_context(context, r, dataset_selected),
                          LAMBDA query_context :
                            [config |-> RemoveInvalidFields(
                                            put(r, "query_context", Dumps(query_context))),
                             context |-> query_context])
           ELSE IF IsDict(get(r, "query_context", JNull))
                THEN [config |-> RemoveInvalidFields(
                                    put(r, "query_context", Dumps(get(r, "query_context", JNull)))),
                      context |-> context]
           ELSE [config |-> RemoveInvalidFields(r), context |-> context])

(* ------------------------------ inputs --------------------------------- *)
Obj(r) == JDict(r)
Strs(xs) == JList([i \in 1..Len(xs) |-> JStr(xs[i])])

\* the dicts that carry key k with one of vals, or do not carry it
Opt(k, vals) == {EmptyDict} \cup {put(EmptyDict, k, v) : v \in vals}
Cross(A, B) == {update(a, b) : a \in A, b \in B}

Sales ==
    Obj([id |-> JNum(7), table_name |-> JStr("sales"),
         columns |-> JList(<<
            Obj([column_name |-> JStr("created_at"), type |-> JStr("TIMESTAMP"), is_dttm |-> JTrue]),
            Obj([column_name |-> JStr("amount"), type |-> JStr("DECIMAL")]),
            Obj([column_name |-> JStr("category"), type |-> JStr("VARCHAR")])>>)])

Orders ==
    Obj([id |-> JNum(9),
         columns |-> JList(<<
            Obj([column_name |-> JStr("order_date"), type |-> JStr("DATE")]),
            Obj([column_name |-> JStr("qty"), type |-> JStr("INTEGER"), id |-> JNum(3)]),
            Obj([column_name |-> JStr("name"), type |-> JStr("TEXT")])>>)])

\* a catalog whose only date-like column is date-like by name, not by type
Log ==
    Obj([id |-> JNum(11), table_name |-> JStr("log"),
         columns |-> JList(<<
            Obj([column_name |-> JStr("code"), type |-> JStr("VARCHAR")]),
            Obj([column_name |-> JStr("event_time"), type |-> JStr("VARCHAR")])>>)])

\* a catalog without any date-like column
Plain ==
    Obj([id |-> JNum(12), table_name |-> JStr("plain"),
         columns |-> JList(<<
            Obj([column_name |-> JStr("code"), type |-> JStr("VARCHAR")]),
            Obj([column_name |-> JStr("qty"), type |-> JStr("INTEGER")])>>)])

\* a dataset whose catalog is empty
Bare == Obj([id |-> JNum(13), table_name |-> JStr("bare"), columns |-> EmptyList])

Datasets == {Sales, Orders, Log, Plain}

Column(name, type) == Obj([column_name |-> JStr(name), type |-> JStr(type)])

\* a catalog with more columns than raw mode selects by itself
Wide ==
    Obj([id |-> JNum(14), table_name |-> JStr("wide"),
         columns |-> JList(<<Column("id", "INTEGER"), Column("code", "VARCHAR"),
                             Column("name", "VARCHAR"), Column("city", "VARCHAR"),
                             Column("region", "VARCHAR"), Column("status", "VARCHAR"),
                             Column("amount", "DECIMAL"), Column("created_date", "DATE"),
                             Column("updated_at", "TIMESTAMP")>>)])

SumAmount == Obj([aggregate |-> JStr("SUM"), column |-> Obj([column_name |-> JStr("amount")])])

\* two metrics that differ in aggregate and column and share their label
SameLabelMetrics ==
    JList(<<Obj([aggregate |-> JStr("SUM"), column |-> Obj([column_name |-> JStr("amount")]),
                 label |-> JStr("total")]),
            Obj([aggregate |-> JStr("AVG"), column |-> Obj([column_name |-> JStr("qty")]),
                 label |-> JStr("total")])>>)

\* candidates' metric fields: either, both, neither, empty and ill-typed
MetricFamily ==
    Cross(Opt("metric", {JStr("count(*)"), SumAmount}),
          Opt("metrics", {EmptyList, Strs(<<"sum(amount)", "avg(qty)">>), SameLabelMetrics,
                          JNum(5)}))

\* table candidates: query mode, ordering columns, ordering hints, column lists
TableFamily ==
    Cross(Cross(Opt("query_mode", {JStr("raw")}),
                Opt("order_by_cols", {Strs(<<"amount">>), Strs(<<"created_at">>)})),
          Cross(Opt("order_by", {JStr("created date")}),
                Opt("columns", {Strs(<<"amount", "order_date">>), EmptyList})))

OtherFilter ==
    Obj([expressionType |-> JStr("SIMPLE"), subject |-> JStr("category"),
         operator |-> JStr("=="), comparator |-> JStr("a"), clause |-> JStr("WHERE")])

\* timeseries candidates: contribution mode under either spelling
ContributionFamily ==
    Cross(Opt("contributionMode", {JStr("series"), JStr("row"), JNull, JNum(5)}),
          Opt("contribution_mode", {JStr("row")}))

\* timeseries and big_number candidates: axis, grain and filters
FilterFamily ==
    Cross(Cross(Opt("adhoc_filters", {EmptyList, JList(<<OtherFilter>>),
                                      JList(<<TemporalFilter(JStr("zz"))>>),
                                      JList(<<TemporalFilter(JStr("zz")),
                                              TemporalFilter(JStr("yy"))>>),
                                      JList(<<OtherFilter, TemporalFilter(JStr("created_at"))>>),
                                      JList(<<JNum(5)>>)}),
                Opt("x_axis", {JStr("created_at"), JStr("")})),
          Opt("time_grain_sqla", {JStr("P1D")}))

TableTypes == {"table", "sankey"}

\* <<viz_type, params>> pairs handed to validate_params_by_chart_type
NormalizeInputs ==
    ((SupportedTypes \cup {"sankey"}) \X MetricFamily)
    \cup (TableTypes \X TableFamily)
    \cup (TimeseriesTypes \X (ContributionFamily \cup FilterFamily))
    \cup ({"big_number"} \X FilterFamily)

\* what a candidate may carry under viz_type besides a supported tag
OddVizTypes == {JStr("sankey"), JNull, JNum(5), Strs(<<"pie">>)}

\* what a candidate may carry under params besides a dict
OddParams == {JNull, JList(<<JNum(1)>>), JStr("abc"), JStr("{}")}

Envelope == Obj([slice_name |-> JStr("s"), dataset_id |-> JNum(7), table_name |-> JStr("q")])

\* candidates (ai_response): dicts with and without viz_type and params, of any
\* type, and values that are no dict at all
Candidates ==
    {put(put(EmptyDict, "viz_type", JStr(i[1])), "params", i[2]) : i \in NormalizeInputs}
    \cup {put(put(Envelope, "viz_type", JStr(i[1])), "params", i[2]) :
             i \in {"pie", "table"} \X MetricFamily}
    \cup {put(put(EmptyDict, "viz_type", v), "params", p) :
             v \in OddVizTypes \cup {JStr(t) : t \in SupportedTypes}, p \in OddParams}
    \cup {put(EmptyDict, "viz_type", v) : v \in OddVizTypes \cup {JStr(t) : t \in SupportedTypes}}
    \cup {put(EmptyDict, "params", p) : p \in OddParams \cup MetricFamily}
    \cup {EmptyDict, JNull, JNum(5), JStr("abc"), EmptyList}

\* the table candidates, which are also normalised over the wide catalog
TableCandidates == {put(put(EmptyDict, "viz_type", JStr("table")), "params", p) : p \in TableFamily}

NormalizeCases == (Candidates \X Datasets) \cup (TableCandidates \X {Wide})

(* ------------------- normalisation as a state machine ------------------ *)
NoValue == <<"none">>

\* the chart type a direct validate_params_by_chart_type call is made with
TypeOf(cand) ==
    IF IsDict(cand) /\ IsStr(get(cand, "viz_type", JNull)) THEN get(cand, "viz_type", JNull)[2]
    ELSE "table"

ParamsOf(cand) == IF IsDict(cand) THEN get(cand, "params", NoValue) ELSE NoValue

Idle ==
    /\ DEFAULT_QUERY_CONTEXT = InitialQueryContext
    /\ now = 0
    /\ calls = 0
    /\ first_plan = NoValue
    /\ pc = NoValue
    /\ local = NoValue

NormalizeInit ==
    /\ Idle
    /\ \E c \in NormalizeCases : in_cand = c[1] /\ in_ds = c[2]
    /\ in_type = TypeOf(in_cand)
    /\ op = "input"
    /\ out = NoValue
    /\ out2 = NoValue

\* ChartValidator.validate_ai_response(in_cand, in_ds)
Validate ==
    /\ op = "input"
    /\ out' = validate_ai_response(in_cand, in_ds)
    /\ out2' = NoValue
    /\ op' = "validate"
    /\ UNCHANGED <<DEFAULT_QUERY_CONTEXT, now, calls, in_cand, in_ds, in_type, first_plan, pc, local>>

\* ChartGenerator._validate_ai_response(in_cand, in_ds) in a process that has built
\* no plan yet
ValidateCG ==
    /\ op = "input"
    /\ out' = CG_validate_ai_response(InitialQueryContext, in_cand, in_ds).config
    /\ out2' = NoValue
    /\ op' = "cg_validate"
    /\ UNCHANGED <<DEFAULT_QUERY_CONTEXT, now, calls, in_cand, in_ds, in_type, first_plan, pc, local>>

\* ChartValidator.validate_params_by_chart_type(params, in_type, in_ds)
Normalize ==
    /\ op = "input"
    /\ IsDict(ParamsOf(in_cand))
    /\ out' = validate_params_by_chart_type(ParamsOf(in_cand), in_type, in_ds)
    /\ out2' = NoValue
    /\ op' = "normalize"
    /\ UNCHANGED <<DEFAULT_QUERY_CONTEXT, now, calls, in_cand, in_ds, in_type, first_plan, pc, local>>

\* ChartGenerator._validate_params_by_chart_type(params, in_type, in_ds)
NormalizeCG ==
    /\ op = "input"
    /\ IsDict(ParamsOf(in_cand))
    /\ out' = CG_validate_params_by_chart_type(ParamsOf(in_cand), in_type, in_ds)
    /\ out2' = NoValue
    /\ op' = "cg_normalize"
    /\ UNCHANGED <<DEFAULT_QUERY_CONTEXT, now, calls, in_cand, in_ds, in_type, first_plan, pc, local>>

\* validate_params_by_chart_type applied to its own output
Renormalize ==
    /\ op = "normalize"
    /\ out # RAISE
    /\ out2' = validate_params_by_chart_type(out, in_type, in_ds)
    /\ op' = "renormalize"
    /\ UNCHANGED <<DEFAULT_QUERY_CONTEXT, now, calls, in_cand, in_ds, in_type, out, first_plan,
                   pc, local>>

\* the wall clock (int(time.time())) moves on between calls
Tick ==
    /\ now < MaxClock
    /\ now' = now + 1
    /\ UNCHANGED <<DEFAULT_QUERY_CONTEXT, calls, op, in_cand, in_ds, in_type, out, out2,
                   first_plan, pc, local>>

NormalizeNext == Validate \/ ValidateCG \/ Normalize \/ NormalizeCG \/ Renormalize \/ Tick

NormalizeSpec == NormalizeInit /\ [][NormalizeNext]_vars

(* ---------------- compile calls sharing DEFAULT_QUERY_CONTEXT ---------- *)
Job(cand, ds) == [cand |-> cand, ds |-> ds]

\* the compile requests of the sequential and the concurrent runs
Jobs ==
    << Job(Obj([viz_type |-> JStr("echarts_timeseries_line"),
                params |-> Obj([x_axis |-> JStr("created_at"),
                                metrics |-> Strs(<<"sum(amount)">>),
                                groupby |-> Strs(<<"category">>)])]), Sales),
       Job(Obj([viz_type |-> JStr("pie"), params |-> Obj([metric |-> JStr("count(*)")])]), Orders),
       Job(Obj([viz_type |-> JStr("table"), params |-> Obj([query_mode |-> JStr("raw")])]), Sales),
       Job(Obj([viz_type |-> JStr("big_number"),
                params |-> Obj([metric |-> JStr("count(*)"), x_axis |-> JStr("created_at"),
                                time_grain_sqla |-> JStr("P1D")])]), Sales),
       Job(Obj([viz_type |-> JStr("table"),
                params |-> Obj([metrics |-> Strs(<<"sum(qty)">>),
                                groupby |-> Strs(<<"name">>)])]), Orders),
       Job(Obj([viz_type |-> JStr("table"), params |-> JNull]), Orders),
       Job(Obj([viz_type |-> Strs(<<"pie">>)]), Sales) >>

JobIds == 1..Len(Jobs)

\* the jobs whose params reach the plan builder as a dict
PlanJobs == {j \in JobIds : IsDict(ParamsOf(Jobs[j].cand))}

CallKinds == {"compile", "build"}

Init ==
    /\ DEFAULT_QUERY_CONTEXT = InitialQueryContext
    /\ now = 0
    /\ calls = 0
    /\ op = "init"
    /\ in_cand = NoValue
    /\ in_ds = NoValue
    /\ in_type = NoValue
    /\ out = NoValue
    /\ out2 = NoValue
    /\ first_plan = [k \in CallKinds \X JobIds |-> NoValue]
    /\ pc = NoValue
    /\ local = NoValue

\* the query_context a configuration carries, decoded
PlanIn(config) ==
    IF has(config, "query_context") /\ IsJsonString(get(config, "query_context", JNull))
    THEN Loads(get(config, "query_context", JNull))
    ELSE NoValue

Record(kind, j, plan) ==
    IF first_plan[<<kind, j>>] = NoValue THEN [first_plan EXCEPT ![<<kind, j>>] = plan]
    ELSE first_plan

\* ChartGenerator._validate_ai_response(candidate, dataset), as generate_chart calls it
Compile(j) ==
    /\ calls < MaxCalls
    /\ \E r \in {CG_validate_ai_response(DEFAULT_QUERY_CONTEXT, Jobs[j].cand, Jobs[j].ds)} :
       /\ calls' = calls + 1
       /\ DEFAULT_QUERY_CONTEXT' = r.context
       /\ out' = [config |-> r.config, plan |-> PlanIn(r.config)]
       /\ first_plan' = Record("compile", j, PlanIn(r.config))
       /\ op' = "compile"
       /\ in_cand' = Jobs[j].cand
       /\ in_ds' = Jobs[j].ds
       /\ in_type' = TypeOf(Jobs[j].cand)
       /\ UNCHANGED <<now, out2, pc, local>>

\* ChartValidator.validate_ai_response, then QueryContextBuilder.generate_query_context
\* on the configuration it returned
Build(j) ==
    /\ calls < MaxCalls
    /\ \E config \in {validate_ai_response(Jobs[j].cand, Jobs[j].ds)} :
       \E plan \in {generate_query_context(DEFAULT_QUERY_CONTEXT, config, Jobs[j].ds)} :
       /\ calls' = calls + 1
       /\ DEFAULT_QUERY_CONTEXT' = plan
       /\ out' = [config |-> config, plan |-> plan,
                   ok |-> plan_reconstructed(DEFAULT_QUERY_CONTEXT, config, Jobs[j].ds)]
       /\ first_plan' = Record("build", j, plan)
       /\ op' = "build"
       /\ in_cand' = Jobs[j].cand
       /\ in_ds' = Jobs[j].ds
       /\ in_type' = TypeOf(Jobs[j].cand)
       /\ UNCHANGED <<now, out2, pc, local>>

\* chart configurations handed to generate_query_context as they are: a params
\* string that is not JSON, an ill-typed groupby, ill-typed metrics
RawConfigs ==
    << Obj([viz_type |-> JStr("table"), params |-> JStr("not json")]),
       Obj([viz_type |-> JStr("echarts_timeseries_line"),
            params |-> Obj([x_axis |-> JStr("created_at"), groupby |-> JNum(5),
                            metrics |-> Strs(<<"count(*)">>)])]),
       Obj([viz_type |-> JStr("echarts_timeseries_bar"),
            params |-> Obj([x_axis |-> JStr("created_at"), groupby |-> Strs(<<"category">>),
                            metrics |-> JNum(5)])]) >>

\* QueryContextBuilder.generate_query_context(RawConfigs[k], Sales)
BuildRaw(k) ==
    /\ calls < MaxCalls
    /\ \E plan \in {generate_query_context(DEFAULT_QUERY_CONTEXT, RawConfigs[k], Sales)} :
       /\ calls' = calls + 1
       /\ DEFAULT_QUERY_CONTEXT' = plan
       /\ out' = [config |-> RawConfigs[k], plan |-> plan,
                   ok |-> plan_reconstructed(DEFAULT_QUERY_CONTEXT, RawConfigs[k], Sales)]
       /\ op' = "build_raw"
       /\ in_cand' = RawConfigs[k]
       /\ in_ds' = Sales
       /\ in_type' = TypeOf(RawConfigs[k])
       /\ UNCHANGED <<now, out2, first_plan, pc, local>>

Next ==
    \/ Tick
    \/ \E j \in JobIds : Compile(j)
    \/ \E j \in JobIds : Build(j)
    \/ \E k \in 1..Len(RawConfigs) : BuildRaw(k)

Spec == Init /\ [][Next]_vars

(* ------------------------- concurrent requests ------------------------- *)
\* Requests are coroutines of one event loop: a build is a synchronous call, so
\* it runs to its return without interleaving, and requests interleave between
\* their steps (arrival, build, delivery of the plan).
Requests == {1, 2}

ConcInit ==
    /\ DEFAULT_QUERY_CONTEXT = InitialQueryContext
    /\ now = 0
    /\ calls = 0
    /\ op = "init"
    /\ in_cand = NoValue
    /\ in_ds = NoValue
    /\ in_type = NoValue
    /\ out = NoValue
    /\ out2 = NoValue
    /\ first_plan = NoValue
    /\ pc = [r \in Requests |-> "idle"]
    /\ local = [r \in Requests |-> [job |-> 0, plan |-> NoValue, aliased |-> FALSE,
                                    sent |-> NoValue]]

\* request r arrives with job j
Arrive(r, j) ==
    /\ pc[r] = "idle"
    /\ pc' = [pc EXCEPT ![r] = "pending"]
    /\ local' = [local EXCEPT ![r].job = j]
    /\ op' = "arrive"
    /\ UNCHANGED <<DEFAULT_QUERY_CONTEXT, now, calls, in_cand, in_ds, in_type, out, out2, first_plan>>

\* QueryContextBuilder.generate_query_context: the dict it returns holds the
\* "datasource" and "queries" objects of the shared DEFAULT_QUERY_CONTEXT
BuildPlan(r) ==
    /\ pc[r] = "pending"
    /\ \E job \in {Jobs[local[r].job]} :
       \E plan \in {generate_query_context(DEFAULT_QUERY_CONTEXT,
                                           validate_ai_response(job.cand, job.ds), job.ds)} :
       /\ pc' = [pc EXCEPT ![r] = "built"]
       /\ DEFAULT_QUERY_CONTEXT' = plan
       /\ local' = [local EXCEPT ![r].plan = plan, ![r].aliased = TRUE]
       /\ calls' = calls + 1
       /\ op' = "build"
       /\ UNCHANGED <<now, in_cand, in_ds, in_type, out, out2, first_plan>>

\* ChartGenerator._validate_ai_response: the plan is serialised before the call returns
CompilePlan(r) ==
    /\ pc[r] = "pending"
    /\ \E job \in {Jobs[local[r].job]} :
       \E res \in {CG_validate_ai_response(DEFAULT_QUERY_CONTEXT, job.cand, job.ds)} :
       /\ pc' = [pc EXCEPT ![r] = "built"]
       /\ DEFAULT_QUERY_CONTEXT' = res.context
       /\ local' = [local EXCEPT ![r].plan = PlanIn(res.config), ![r].aliased = FALSE]
       /\ calls' = calls + 1
       /\ op' = "compile"
       /\ UNCHANGED <<now, in_cand, in_ds, in_type, out, out2, first_plan>>

\* request r hands its plan on: a returned dict is read as it now is
Deliver(r) ==
    /\ pc[r] = "built"
    /\ pc' = [pc EXCEPT ![r] = "done"]
    /\ local' = [local EXCEPT ![r].sent =
                    IF local[r].aliased THEN DEFAULT_QUERY_CONTEXT ELSE local[r].plan]
    /\ op' = "deliver"
    /\ UNCHANGED <<DEFAULT_QUERY_CONTEXT, now, calls, in_cand, in_ds, in_type, out, out2, first_plan>>

ConcNext ==
    \/ \E r \in Requests, j \in PlanJobs : Arrive(r, j)
    \/ \E r \in Requests : BuildPlan(r)
    \/ \E r \in Requests : CompilePlan(r)
    \/ \E r \in Requests : Deliver(r)
    \/ Tick

ConcSpec == ConcInit /\ [][ConcNext]_vars

(* ----------------- the metric resolver as a state machine --------------- *)
ColumnRef(name) == Obj([column_name |-> JStr(name)])

\* raw metric values: strings of every branch, dicts with and without column,
\* aggregate, label, expressionType and optionName, a number and null
RawMetrics ==
    {JStr(s) : s \in {"count(*)", "count(amount)", "count(ghost)", "count", "sum(amount)",
                      "sum(qty)", "sum(ghost)", "sum(*)", "avg(qty)", "avg(code)",
                      "avg(ghost)", "max(amount)", "amount", ""}}
    \cup {EmptyDict, SumAmount,
          Obj([aggregate |-> JStr("sum")]),
          Obj([aggregate |-> JStr("MAX"), label |-> JStr("MAX(qty)")]),
          Obj([aggregate |-> JNum(5), column |-> ColumnRef("amount")]),
          Obj([aggregate |-> JStr("AVG"), label |-> JNum(5)]),
          Obj([expressionType |-> JStr("SQL"), sqlExpression |-> JStr("1")]),
          Obj([expressionType |-> JStr("SIMPLE"), optionName |-> JStr("m1"),
               aggregate |-> JStr("SUM"), column |-> ColumnRef("qty"), label |-> JStr("q")]),
          Obj([label |-> JStr("x")]),
          JNum(5), JNull}

Catalogs == Datasets \cup {Bare}

ResolveInit ==
    /\ Idle
    /\ in_cand \in RawMetrics
    /\ in_ds \in Catalogs
    /\ in_type = "metric"
    /\ op = "input"
    /\ out = NoValue
    /\ out2 = NoValue

\* MetricBuilder.enhance_metric_with_column_metadata(in_cand, in_ds)
Resolve ==
    /\ op = "input"
    /\ out' = enhance_metric_with_column_metadata(in_cand, in_ds)
    /\ op' = "resolve"
    /\ UNCHANGED <<DEFAULT_QUERY_CONTEXT, now, calls, in_cand, in_ds, in_type, out2, first_plan,
                   pc, local>>

\* ChartGenerator._enhance_metric_with_column_metadata(in_cand, in_ds)
ResolveCG ==
    /\ op = "input"
    /\ out' = CG_enhance_metric_with_column_metadata(in_cand, in_ds)
    /\ op' = "cg_resolve"
    /\ UNCHANGED <<DEFAULT_QUERY_CONTEXT, now, calls, in_cand, in_ds, in_type, out2, first_plan,
                   pc, local>>

ResolveNext == Resolve \/ ResolveCG \/ Tick

ResolveSpec == ResolveInit /\ [][ResolveNext]_vars

(* ---------------- ordering-term mapping as a state machine -------------- *)
\* a catalog in which the mapping rules disagree with one another
Dates ==
    Obj([id |-> JNum(15), table_name |-> JStr("dates"),
         columns |-> JList(<<Column("created_date", "DATE"), Column("date", "DATE"),
                             Column("tanggal", "VARCHAR"), Column("order_date", "DATE"),
                             Column("Amount", "DECIMAL"), Column("qty", "INTEGER")>>)])

OrderingCatalogs == {Sales, Orders, Wide, Dates, Bare}

\* ordering terms: column names, synonym phrases, fragments, other spellings,
\* blanks, unknown words and values that are no string
OrderingTerms ==
    {JStr(s) : s \in {"amount", "Amount", "AMOUNT", "tanggal", "tanggal dibuat", "order date",
                      "created date", "Updated Date ", "waktu", "DATE", "date", "created",
                      "by created_date desc", "Order_Date", "ghost", " ", "", "qty", "NAME",
                      "at"}}
    \cup {JNum(5), JNull, Strs(<<"amount">>), JTrue}

\* [col.get('column_name') for col in columns]
column_names_of(dataset_selected) ==
    [i \in 1..Len(ColumnsOf(dataset_selected)) |->
        get(ColumnsOf(dataset_selected)[i], "column_name", JNull)]

OrderingInit ==
    /\ Idle
    /\ in_cand \in OrderingTerms \cup {Strs(<<"tanggal", "ghost", "date", "waktu">>)}
    /\ in_ds \in OrderingCatalogs
    /\ in_type = "term"
    /\ op = "input"
    /\ out = NoValue
    /\ out2 = NoValue

\* ChartValidator._map_single_ordering_term(in_cand, column_names)
MapTerm ==
    /\ op = "input"
    /\ out' = _map_single_ordering_term(in_cand, column_names_of(in_ds))
    /\ op' = "map_term"
    /\ UNCHANGED <<DEFAULT_QUERY_CONTEXT, now, calls, in_cand, in_ds, in_type, out2, first_plan,
                   pc, local>>

\* ChartValidator._map_ordering_terms_to_columns(in_cand, column_names)
MapTermList ==
    /\ op = "input"
    /\ IsList(in_cand)
    /\ out' = JList(_map_ordering_terms_to_columns(items(in_cand), column_names_of(in_ds)))
    /\ op' = "map_terms"
    /\ UNCHANGED <<DEFAULT_QUERY_CONTEXT, now, calls, in_cand, in_ds, in_type, out2, first_plan,
                   pc, local>>

OrderingNext == MapTerm \/ MapTermList

OrderingSpec == OrderingInit /\ [][OrderingNext]_vars


(* ---------------- generate_resource and generate_chart ----------------- *)
\* the response the model client returns when it cannot parse the model's text
ErrorTagged == Obj([error |-> JStr("Invalid JSON response"), raw_content |-> JStr("x")])

\* what generate_json_async hands back: a parsed JSON value, or it raises
ModelResponses ==
    { Jobs[1].cand, Jobs[2].cand, Jobs[7].cand,
      ErrorTagged, Obj([error |-> JStr("quota")]),
      EmptyList, Strs(<<"error">>), JStr("an error"), JNum(5), RAISE }

\* what create_chart hands back: the backend's answer, or it raises
CreateResponses ==
    { Obj([id |-> JNum(41), result |-> EmptyDict]), Obj([result |-> EmptyDict]),
      Obj([id |-> JNum(0)]), RAISE }

SelectOutcomes == {"selected", "none", "no_details", "raised"}
ExportOutcomes == {"succeeded", "failed", "timed_out", "raised", "not_constructed"}

GenDatasets == {Sales, Orders}
DashboardIds == {JNull, JNum(3)}

\* a check that lets every returned response through
ModelRaised(ai_response) == ai_response = RAISE

\* generate_chart raises before it validates: the client raised, the response
\* carries the error tag, or the `"error" in ai_response` test itself (and the
\* subscript that follows it) raises on a value that is not a dict
ModelError(ai_response) ==
    CASE ai_response = RAISE -> TRUE
      [] IsDict(ai_response) -> has(ai_response, "error")
      [] IsList(ai_response) -> \E i \in 1..Len(items(ai_response)) : items(ai_response)[i] = JStr("error")
      [] IsStr(ai_response) -> Contains(ai_response[2], "error")
      [] OTHER -> TRUE

ModelErrorText(ai_response) ==
    CASE ai_response = RAISE -> "model client failed"
      [] IsDict(ai_response) -> "AI model error: " \o PyStr(get(ai_response, "error", JNull))
      [] OTHER -> "TypeError"

\* the except branch of generate_chart
ChartFailure(text, dataset_selected) ==
    Obj([success |-> JFalse, error |-> JStr(text), user_prompt |-> JStr("p"),
         dataset_used |-> get(dataset_selected, "table_name", JNull)])

\* the result generate_chart returns after the chart was created
ChartSuccess(created_chart, chart_config, dataset_selected) ==
    Obj([success |-> JTrue, chart |-> created_chart, ai_config |-> chart_config,
         user_prompt |-> JStr("p"),
         dataset_used |-> get(dataset_selected, "table_name", JNull),
         chart_type |-> get(chart_config, "viz_type", JNull)])

\* the export result of each outcome of the export step
ExportResult(outcome, chart_id) ==
    CASE outcome = "succeeded" ->
            Obj([success |-> JTrue, chart_id |-> chart_id, zip_file_path |-> JStr("z"),
                 extracted_files |-> Obj([extract_directory |-> JStr("d"), files |-> EmptyList,
                                          total_files |-> JNum(0)]),
                 export_timestamp |-> JStr("t")])
      [] outcome = "failed" ->
            Obj([success |-> JFalse, chart_id |-> chart_id, error |-> JStr("export failed"),
                 export_timestamp |-> JStr("t")])
      [] outcome = "timed_out" ->
            Obj([success |-> JFalse, error |-> JStr("Export timed out after 30 seconds")])
      [] OTHER -> Obj([success |-> JFalse, error |-> JStr("export raised")])

\* the guard of the export step
ExportGuard(chart_result) ==
    /\ Truthy(get(chart_result, "success", JNull))
    /\ Truthy(get(get(chart_result, "chart", EmptyDict), "id", JNull))

ChartInfo(chart_result) ==
    With(get(chart_result, "chart", EmptyDict), LAMBDA chart :
        Obj([success |-> get(chart_result, "success", JFalse),
             id |-> get(chart, "id", JNull),
             name |-> get(chart, "slice_name", JNull),
             viz_type |-> get(chart, "viz_type", JNull),
             url |-> get(chart, "url", JNull),
             error |-> get(chart_result, "error", JNull)]))

ExportInfo(export_result) ==
    IF ~Truthy(export_result) THEN JNull
    ELSE With(get(export_result, "extracted_files", EmptyDict), LAMBDA files :
            Obj([success |-> get(export_result, "success", JFalse),
                 chart_id |-> get(export_result, "chart_id", JNull),
                 files_exported |-> get(files, "total_files", JNull),
                 export_path |-> get(files, "extract_directory", JNull),
                 error |-> get(export_result, "error", JNull)]))

ResponseMessage(chart_result, export_result) ==
    IF Truthy(get(chart_result, "success", JFalse))
    THEN IF Truthy(export_result) /\ Truthy(get(export_result, "success", JFalse))
         THEN "Dashboard and chart export completed successfully"
         ELSE IF Truthy(export_result)
         THEN "Dashboard created successfully, but chart export failed"
         ELSE "Dashboard created successfully (chart export was skipped)"
    ELSE "Dashboard creation failed: " \o PyStr(get(chart_result, "error", JStr("Unknown error")))

\* a response whose success flag also demands a successful export
GenerationResponse_all_steps(chart_result, export_result) ==
    Obj([success |-> JBool(/\ Truthy(get(chart_result, "success", JFalse))
                           /\ Truthy(export_result)
                           /\ Truthy(get(export_result, "success", JFalse))),
         message |-> JStr(ResponseMessage(chart_result, export_result)),
         result |-> Obj([chart |-> ChartInfo(chart_result),
                         export |-> ExportInfo(export_result)])])

GenerationResponse(chart_result, export_result) ==
    Obj([success |-> get(chart_result, "success", JFalse),
         message |-> JStr(ResponseMessage(chart_result, export_result)),
         result |-> Obj([chart |-> ChartInfo(chart_result),
                         export |-> ExportInfo(export_result)])])

ErrorResponse == Obj([success |-> JFalse, message |-> JStr("generation failed"), result |-> JNull])

HTTPException(status) == <<"http", status>>

\* generate_chart hands its result to its caller: the route goes on to the
\* export step, a direct call is finished
Returned(chart_result) ==
    /\ pc' = IF op = "generate_resource" THEN "export" ELSE "done"
    /\ out' = IF op = "generate_resource" THEN out ELSE chart_result

GenInit ==
    /\ DEFAULT_QUERY_CONTEXT = InitialQueryContext
    /\ now = 0
    /\ calls = 0
    /\ op \in {"generate_resource", "generate_chart"}
    /\ in_cand = NoValue
    /\ in_ds \in GenDatasets
    /\ in_type = NoValue
    /\ out = NoValue
    /\ out2 = NoValue
    /\ first_plan = NoValue
    /\ pc = IF op = "generate_resource" THEN "select" ELSE "model"
    /\ \E d \in DashboardIds :
          /\ (op = "generate_resource") => d = JNull
          /\ local = [dashboard_id |-> d, chart_config |-> NoValue, created_chart |-> NoValue,
                      chart_result |-> NoValue, export_result |-> NoValue, trace |-> <<>>]

\* generate_resource up to the generate_chart call
SelectDatasets ==
    /\ pc = "select"
    /\ \E r \in SelectOutcomes :
          /\ out' = CASE r = "selected" -> out
                      [] r = "none" -> HTTPException(400)
                      [] r = "no_details" -> HTTPException(500)
                      [] OTHER -> ErrorResponse
          /\ pc' = IF r = "selected" THEN "model" ELSE "done"
          /\ local' = [local EXCEPT !.trace = Append(@, "select_datasets_async")]
    /\ UNCHANGED <<DEFAULT_QUERY_CONTEXT, now, calls, op, in_cand, in_ds, in_type, out2, first_plan>>

\* generate_chart from the model call up to the create_chart call
CallModel ==
    /\ pc = "model"
    /\ \E ai_response \in ModelResponses :
          /\ in_cand' = ai_response
          /\ IF ModelError(ai_response)
             THEN /\ \E r \in {ChartFailure(ModelErrorText(ai_response), in_ds)} :
                        /\ local' = [local EXCEPT !.chart_result = r,
                                                  !.trace = Append(@, "generate_json_async")]
                        /\ Returned(r)
                  /\ UNCHANGED DEFAULT_QUERY_CONTEXT
             ELSE /\ \E v \in {CG_validate_ai_response(DEFAULT_QUERY_CONTEXT, ai_response, in_ds)} :
                        /\ local' = [local EXCEPT !.chart_config = v.config,
                                                  !.trace = Append(@, "generate_json_async")]
                        /\ DEFAULT_QUERY_CONTEXT' = v.context
                  /\ pc' = "create"
                  /\ out' = out
    /\ UNCHANGED <<now, calls, op, in_ds, in_type, out2, first_plan>>

\* generate_chart from the create_chart call up to the dashboard association
CreateChart ==
    /\ pc = "create"
    /\ \E created_chart \in CreateResponses :
          IF created_chart = RAISE
          THEN \E r \in {ChartFailure("create_chart failed", in_ds)} :
                  /\ local' = [local EXCEPT !.created_chart = RAISE, !.chart_result = r,
                                            !.trace = Append(@, "create_chart")]
                  /\ Returned(r)
          ELSE IF Truthy(local.dashboard_id) /\ Truthy(get(created_chart, "id", JNull))
          THEN /\ local' = [local EXCEPT !.created_chart = created_chart,
                                         !.trace = Append(@, "create_chart")]
               /\ pc' = "associate"
               /\ out' = out
          ELSE \E r \in {ChartSuccess(created_chart, local.chart_config, in_ds)} :
                  /\ local' = [local EXCEPT !.created_chart = created_chart, !.chart_result = r,
                                            !.trace = Append(@, "create_chart")]
                  /\ Returned(r)
    /\ UNCHANGED <<DEFAULT_QUERY_CONTEXT, now, calls, op, in_cand, in_ds, in_type, out2, first_plan>>

\* generate_chart from the dashboard association to its return
AssociateChart ==
    /\ pc = "associate"
    /\ \E associated \in BOOLEAN :
          \E r \in {IF associated
                    THEN ChartSuccess(local.created_chart, local.chart_config, in_ds)
                    ELSE ChartFailure("Failed to associate chart to dashboard", in_ds)} :
              /\ local' = [local EXCEPT !.chart_result = r,
                                        !.trace = Append(@, "associate_chart_to_dashboard")]
              /\ Returned(r)
    /\ UNCHANGED <<DEFAULT_QUERY_CONTEXT, now, calls, op, in_cand, in_ds, in_type, out2, first_plan>>

\* generate_resource from the export step to the response
ExportAndRespond ==
    /\ pc = "export"
    /\ IF ExportGuard(local.chart_result)
       THEN \E outcome \in ExportOutcomes :
              \E r \in {ExportResult(outcome, get(get(local.chart_result, "chart", EmptyDict), "id", JNull))} :
                  /\ local' = [local EXCEPT !.export_result = r,
                                 !.trace = IF outcome = "not_constructed" THEN @
                                           ELSE Append(@, "export_chart")]
                  /\ out' = GenerationResponse(local.chart_result, r)
                  /\ out2' = JStr(outcome)
       ELSE /\ local' = [local EXCEPT !.export_result = JNull]
            /\ out' = GenerationResponse(local.chart_result, JNull)
            /\ out2' = JStr("skipped")
    /\ pc' = "done"
    /\ UNCHANGED <<DEFAULT_QUERY_CONTEXT, now, calls, op, in_cand, in_ds, in_type, first_plan>>

GenNext == SelectDatasets \/ CallModel \/ CreateChart \/ AssociateChart \/ ExportAndRespond

GenSpec == GenInit /\ [][GenNext]_vars


(* ---------------- RequestHandler.request ------------------------------- *)
\* request calls itself from both retry handlers. The nesting of these calls
\* is not part of the state: the code keeps no count of them, and the model
\* counts the retries, logins and requests of one call up to this number
MaxRetries == 3

\* what raise_for_status reports for the answers of the server
Unauthorized == "401 Client Error: Unauthorized for url: u/api/v1/chart"
CsrfRejected == "400 Client Error: The CSRF token is missing for url: u/api/v1/chart"
ServerError == "500 Server Error: INTERNAL SERVER ERROR for url: u/api/v1/chart"

\* the answers of the server to an API request: a JSON body, or an error status
Answers == {"ok", Unauthorized, CsrfRejected, ServerError}

APIRequestError(e) == <<"APIRequestError", "API request failed: " \o e>>
AuthenticationError(e) == <<"AuthenticationError", "Failed to authenticate with Superset API: " \o e>>

_is_authentication_error(error) ==
    Contains(Lower(error[2]), "401") \/ Contains(Lower(error[2]), "unauthorized")

_is_csrf_error(error) ==
    Contains(Lower(error[2]), "csrf") \/ Contains(Lower(error[2]), "token")

Counted(n) == IF n < MaxRetries THEN n + 1 ELSE n

\* the handler is kept between calls: it may hold a token of an earlier call
ReqInit ==
    /\ DEFAULT_QUERY_CONTEXT = InitialQueryContext
    /\ now = 0
    /\ calls = 0
    /\ op = "request"
    /\ in_cand \in {"GET", "POST"}
    /\ in_ds = NoValue
    /\ in_type = NoValue
    /\ out = NoValue
    /\ out2 = NoValue
    /\ first_plan = NoValue
    /\ pc = "request"
    /\ \E t \in {JNull, JStr("jwt")}, c \in {JNull, JStr("csrf")} :
          local = [_access_token |-> t, _csrf_token |-> c, csrf_token |-> JNull,
                   retries |-> 0, logins |-> 0, sent |-> 0,
                   after_401 |-> FALSE, fresh |-> FALSE]

\* request up to get_csrf_token: ensure_authenticated, which logs in when the
\* handler holds no access token
EnsureAuthenticated ==
    /\ pc = "request"
    /\ IF local._access_token # JNull
       THEN /\ pc' = "csrf"
            /\ UNCHANGED <<local, out>>
       ELSE \E login \in {"access_token", "no access_token", Unauthorized} :
              IF login = "access_token"
              THEN /\ local' = [local EXCEPT !._access_token = JStr("jwt"), !.fresh = TRUE,
                                             !.logins = Counted(@)]
                   /\ pc' = "csrf"
                   /\ out' = out
              ELSE /\ local' = [local EXCEPT !.logins = Counted(@)]
                   /\ pc' = "done"
                   /\ out' = AuthenticationError(login)
    /\ UNCHANGED <<DEFAULT_QUERY_CONTEXT, now, calls, op, in_cand, in_ds, in_type, out2, first_plan>>

\* get_csrf_token: a token from one of its four sources, or None; it never raises
GetCsrfToken ==
    /\ pc = "csrf"
    /\ \E token \in {JNull, JStr("csrf")} :
          local' = [local EXCEPT !.csrf_token = token,
                                 !._csrf_token = IF token = JNull THEN @ ELSE token]
    /\ pc' = "send"
    /\ UNCHANGED <<DEFAULT_QUERY_CONTEXT, now, calls, op, in_cand, in_ds, in_type, out, out2, first_plan>>

\* api_client.request and the except branch of request, up to the next call
SendRequest ==
    /\ pc = "send"
    /\ \E answer \in Answers :
          IF answer = "ok"
          THEN /\ out' = <<"json", in_cand>>
               /\ pc' = "done"
               /\ local' = [local EXCEPT !.sent = Counted(@)]
          ELSE IF _is_authentication_error(APIRequestError(answer))
          THEN /\ local' = [local EXCEPT !._access_token = JNull, !.fresh = FALSE,
                                         !.after_401 = TRUE,
                                         !.sent = Counted(@), !.retries = Counted(@)]
               /\ pc' = "request"
               /\ out' = out
          ELSE IF _is_csrf_error(APIRequestError(answer))
          THEN /\ local' = [local EXCEPT !._csrf_token = JNull, !.after_401 = FALSE,
                                         !.sent = Counted(@)]
               /\ pc' = "csrf_retry"
               /\ out' = out
          ELSE /\ out' = APIRequestError(answer)
               /\ pc' = "done"
               /\ local' = [local EXCEPT !.sent = Counted(@)]
    /\ UNCHANGED <<DEFAULT_QUERY_CONTEXT, now, calls, op, in_cand, in_ds, in_type, out2, first_plan>>

\* _handle_csrf_retry after reset_token: the token is fetched again, the
\* session-based request returns None, and request is called again
HandleCsrfRetry ==
    /\ pc = "csrf_retry"
    /\ \E token \in {JNull, JStr("csrf")} :
          local' = [local EXCEPT !._csrf_token = IF token = JNull THEN @ ELSE token,
                                 !.retries = Counted(@)]
    /\ pc' = "request"
    /\ UNCHANGED <<DEFAULT_QUERY_CONTEXT, now, calls, op, in_cand, in_ds, in_type, out, out2, first_plan>>

ReqNext == EnsureAuthenticated \/ GetCsrfToken \/ SendRequest \/ HandleCsrfRetry

ReqSpec == ReqInit /\ [][ReqNext]_vars

\* the handler is synchronous code: a step that can be taken is taken
ReqFairSpec == ReqSpec /\ WF_vars(ReqNext)

(* ======================= properties of normalisation =================== *)
\* the call of validate_ai_response on the drawn candidate fails inside its try block
FailsInternally == TryValidate(validate_params_by_chart_type, in_cand, in_ds) = RAISE

DatasourceTag(dataset_selected) == JStr(PyStr(get(dataset_selected, "id", JNull)) \o "__table")

\* {"datasource": "<id>__table", "viz_type": "table"}
MinimalTableParams(dataset_selected) ==
    Obj([datasource |-> DatasourceTag(dataset_selected), viz_type |-> JStr("table")])

\* the table template of CHART_CONFIGS with the datasource filled in
FullTableParams(dataset_selected) ==
    put(DefaultParams("table"), "datasource", DatasourceTag(dataset_selected))

\* C1 as stated: validate_ai_response never raises, always returns a chart
\* configuration, and when normalisation fails internally the configuration is
\* the table chart carrying the full default table parameter set.
C1_FallbackIsFullDefaultTable ==
    op = "validate" =>
        /\ IsDict(out)
        /\ FailsInternally =>
              /\ get(out, "viz_type", JNull) = JStr("table")
              /\ get(out, "params", JNull) = Dumps(FullTableParams(in_ds))

\* C1 amended: validate_ai_response never raises and always returns a chart
\* configuration; when normalisation fails internally the configuration is the
\* minimal table configuration: viz_type "table", the generated slice name, the
\* dataset's id, datasource_type "table", and params encoding exactly
\* `datasource` ("<id>__table") and `viz_type` ("table").
C1_FallbackIsMinimalTable ==
    op = "validate" =>
        /\ IsDict(out)
        /\ {"viz_type", "slice_name", "datasource_id", "datasource_type", "params"} \subseteq keys(out)
        /\ FailsInternally =>
              /\ keys(out) = {"viz_type", "slice_name", "datasource_id", "datasource_type", "params"}
              /\ get(out, "viz_type", JNull) = JStr("table")
              /\ get(out, "datasource_id", JNull) = get(in_ds, "id", JNull)
              /\ get(out, "datasource_type", JNull) = JStr("table")
              /\ IsJsonString(get(out, "params", JNull))
              /\ Loads(get(out, "params", JNull)) = MinimalTableParams(in_ds)
              /\ keys(Loads(get(out, "params", JNull))) # keys(FullTableParams(in_ds))

\* C1 witness: a table candidate whose params object makes the normaliser raise
\* (metrics that has no length) has been compiled into the fallback configuration
C1_FallbackReached ==
    /\ op = "validate"
    /\ IsDict(ParamsOf(in_cand))
    /\ get(in_cand, "viz_type", JNull) = JStr("table")
    /\ FailsInternally
    /\ Loads(get(out, "params", JNull)) = MinimalTableParams(in_ds)

SingularTypes == {"pie", "funnel", "big_number", "big_number_total"}

\* C2 as stated: for every supported chart type the normalised params never mix
\* the metric fields: no `metrics` key for pie, funnel, big_number and
\* big_number_total; no `metric` key for table in aggregate mode and the three
\* timeseries types.
C2_MetricFieldsNeverMixed ==
    (op \in {"normalize", "cg_normalize"} /\ out # RAISE) =>
        /\ in_type \in SingularTypes => ~has(out, "metrics")
        /\ in_type \in TimeseriesTypes => ~has(out, "metric")
        /\ (in_type = "table" /\ get(out, "query_mode", JStr("aggregate")) = JStr("aggregate"))
              => ~has(out, "metric")

\* C2 witness: ChartValidator normalised a pie candidate that supplied both
\* fields and the output still carries both
C2_PieKeepsBothFields ==
    /\ op = "normalize"
    /\ in_type = "pie"
    /\ has(ParamsOf(in_cand), "metric") /\ has(ParamsOf(in_cand), "metrics")
    /\ out # RAISE
    /\ has(out, "metric") /\ has(out, "metrics")

(* ===================== properties of compiled output =================== *)
\* a string holding JSON text: one json.dumps built, or a supplied one that parses
IsJsonEncoded(v) == IsJsonString(v) \/ (IsStr(v) /\ Loads(v) # RAISE)

\* C3 as stated: every configuration ChartGenerator._validate_ai_response emits,
\* on the normal and on the fallback path, carries `params` and `query_context`,
\* each a JSON-encoded string, whatever the candidate supplied for them.
C3_ParamsAndPlanAreJsonStrings ==
    op = "compile" =>
        /\ has(out.config, "params") /\ IsJsonEncoded(get(out.config, "params", JNull))
        /\ has(out.config, "query_context")
        /\ IsJsonEncoded(get(out.config, "query_context", JNull))

\* C3 witness: a candidate whose params is null has been compiled on the normal
\* path and the emitted params is still null
C3_NullParamsEmitted ==
    /\ op = "compile"
    /\ IsDict(in_cand) /\ get(in_cand, "params", NoValue) = JNull
    /\ has(out.config, "query_context")
    /\ get(out.config, "params", NoValue) = JNull

RECURSIVE WithoutMetricIds(_)
\* a value with the generated metric ids (optionName, hashed column ids) blanked
WithoutMetricIds(v) ==
    IF v[1] \in {"optionName", "hash"} THEN <<"id">>
    ELSE IF v[1] = "list" THEN JList([i \in 1..Len(v[2]) |-> WithoutMetricIds(v[2][i])])
    ELSE IF v[1] = "dict" THEN JDict([k \in DOMAIN v[2] |-> WithoutMetricIds(v[2][k])])
    ELSE IF v[1] = "jsonstr" THEN Dumps(WithoutMetricIds(v[2]))
    ELSE v

\* the parts of a plan C4 and C5 speak of
PlanView(plan) ==
    IF plan = NoValue THEN NoValue
    ELSE LET q == Query(plan)
         IN WithoutMetricIds(
              Obj([datasource |-> get(plan, "datasource", NoValue),
                   filters |-> get(q, "filters", NoValue),
                   columns |-> get(q, "columns", NoValue),
                   extras |-> get(q, "extras", NoValue),
                   series_columns |-> get(q, "series_columns", NoValue),
                   post_processing |-> get(q, "post_processing", NoValue)]))

JobOf == CHOOSE j \in JobIds : Jobs[j].cand = in_cand /\ Jobs[j].ds = in_ds

\* C4 as stated: compiling the same candidate and catalog again, after any
\* sequence of other compile calls, returns the same query plan as the first
\* time: datasource, filters, columns, extras, series columns and
\* post-processing equal those of the first plan (metric ids apart).
C4_RecompileGivesFirstPlan ==
    op \in CallKinds => PlanView(out.plan) = PlanView(first_plan[<<op, JobOf>>])

\* C4 witness: the timeseries job has been built a second time and its plan
\* holds more filters than the plan of its first build
C4_SecondBuildDiffers ==
    /\ op = "build"
    /\ JobOf = 1
    /\ calls = 2
    /\ first_plan[<<"build", 1>>] # NoValue
    /\ Len(items(get(Query(out.plan), "filters", EmptyList)))
         > Len(items(get(Query(first_plan[<<"build", 1>>]), "filters", EmptyList)))

\* the plan job j yields when nothing has been built before it
OwnPlan(j, aliased) ==
    IF aliased
    THEN generate_query_context(InitialQueryContext,
                                validate_ai_response(Jobs[j].cand, Jobs[j].ds), Jobs[j].ds)
    ELSE PlanIn(CG_validate_ai_response(InitialQueryContext, Jobs[j].cand, Jobs[j].ds).config)

\* C5 as stated: when plan builds for different datasets and candidates run
\* concurrently without locks, each returned plan carries the datasource id of
\* its own dataset and only the filters, columns and post-processing derived
\* from its own params; no build reads or overwrites what another build wrote.
C5_BuildsDoNotInterfere ==
    \A r \in Requests :
      (/\ pc[r] \in {"built", "done"}
       /\ \A s \in Requests \ {r} :
             local[s].job = 0 \/ Jobs[local[s].job].ds # Jobs[local[r].job].ds) =>
        /\ get(get(local[r].plan, "datasource", EmptyDict), "id", NoValue)
              = get(Jobs[local[r].job].ds, "id", JNull)
        /\ PlanView(local[r].plan) = PlanView(OwnPlan(local[r].job, local[r].aliased))
        /\ pc[r] = "done" => PlanView(local[r].sent) = PlanView(local[r].plan)

\* C5 witness: request 1 built the pie plan for the orders dataset after request
\* 2 built the timeseries plan for the sales dataset, and the pie plan holds the
\* timeseries build's temporal filter
C5_ForeignFilterInPlan ==
    /\ pc[1] = "built" /\ local[1].job = 2
    /\ pc[2] \in {"built", "done"} /\ local[2].job = 1
    /\ \E i \in 1..Len(items(get(Query(local[1].plan), "filters", EmptyList))) :
          get(items(get(Query(local[1].plan), "filters", EmptyList))[i], "col", NoValue)
             = JStr("created_at")

\* the metrics of the chart spec a configuration encodes: [metric] for the
\* singular chart types, `metrics` for the plural ones
SpecMetrics(config) ==
    LET p == Loads(get(config, "params", JNull))
    IN IF get(config, "viz_type", JNull) \in {JStr(t) : t \in SingularTypes}
       THEN IF has(p, "metric") THEN JList(<<get(p, "metric", JNull)>>) ELSE NoValue
       ELSE get(p, "metrics", NoValue)

\* C6 as stated: for every normalised chart spec the plan's metrics equal the
\* spec's metrics: [metric] for singular-metric chart types, the `metrics` list
\* for plural types, table raw mode (empty metrics) included.
C6_PlanMetricsMirrorSpec ==
    (op = "build" /\ IsJsonString(get(out.config, "params", JNull))
                  /\ SpecMetrics(out.config) # NoValue) =>
        get(Query(out.plan), "metrics", NoValue) = SpecMetrics(out.config)

\* C6 witness: the raw-mode table job was built first, from the untouched
\* context; its spec has no metrics and its plan asks for count(*)
C6_RawModePlanCounts ==
    /\ op = "build"
    /\ calls = 1
    /\ get(Loads(get(out.config, "params", JNull)), "query_mode", NoValue) = JStr("raw")
    /\ SpecMetrics(out.config) = EmptyList
    /\ get(Query(out.plan), "metrics", NoValue) = Strs(<<"count(*)">>)

(* ================= properties of normalised parameters ================= *)
\* C7 as stated: validate_params_by_chart_type applied to its own output (same
\* chart type, same catalog) returns params identical field for field to its
\* input, generated metric ids apart, for every chart type.
C7_NormalizeIsIdempotent ==
    op = "renormalize" => WithoutMetricIds(out2) = WithoutMetricIds(out)

\* C7 witness: a raw-mode table candidate ordered by "amount" was normalised
\* into one formatted ordering entry, and normalising that output emptied it
C7_OrderingLostOnSecondPass ==
    /\ op = "renormalize"
    /\ in_type = "table"
    /\ get(ParamsOf(in_cand), "order_by_cols", NoValue) = Strs(<<"amount">>)
    /\ get(out, "order_by_cols", NoValue) = Strs(<<"[\"amount\", false]">>)
    /\ out2 # RAISE
    /\ get(out2, "order_by_cols", NoValue) = EmptyList

\* the params a configuration carries, decoded when they are a string
DecodedParams(config) ==
    IF IsPyStr(get(config, "params", JNull)) THEN Loads(get(config, "params", JNull))
    ELSE get(config, "params", JNull)

UnsupportedVizType(cand) ==
    ~(IsStr(get(cand, "viz_type", JNull)) /\ get(cand, "viz_type", JNull)[2] \in SupportedTypes)

\* C8 as stated: for every candidate whose viz_type is not a supported chart type
\* (absent, null, or a tag outside CHART_CONFIGS), with or without a params
\* object, the output viz_type is "table" and the output params contain
\* `groupby` and `metrics`, both non-null.
C8_UnsupportedBecomesFullTable ==
    (op = "validate" /\ IsDict(in_cand) /\ UnsupportedVizType(in_cand)) =>
        /\ get(out, "viz_type", JNull) = JStr("table")
        /\ IsDict(DecodedParams(out))
        /\ get(DecodedParams(out), "groupby", JNull) # JNull
        /\ get(DecodedParams(out), "metrics", JNull) # JNull

\* C8 witness: a candidate tagged "sankey" with a params object has been
\* compiled to a table whose params carry no groupby
C8_TableWithoutGroupby ==
    /\ op = "validate"
    /\ IsDict(in_cand)
    /\ get(in_cand, "viz_type", JNull) = JStr("sankey")
    /\ IsDict(ParamsOf(in_cand))
    /\ get(out, "viz_type", JNull) = JStr("table")
    /\ IsDict(DecodedParams(out))
    /\ ~has(DecodedParams(out), "groupby")

ContributionModes == {JStr("column"), JStr("row")}

\* C9 as stated: every timeseries output, whatever the candidate supplied under
\* contributionMode or contribution_mode and also when it has no params object,
\* carries contributionMode "column" or "row"; a supplied value other than
\* these two is corrected to "column".
C9_ContributionModeAlwaysSet ==
    (op = "validate" /\ get(out, "viz_type", JNull) \in TimeseriesTags) =>
        /\ IsDict(DecodedParams(out))
        /\ get(DecodedParams(out), "contributionMode", NoValue) \in ContributionModes
        /\ (/\ IsDict(ParamsOf(in_cand))
            /\ has(ParamsOf(in_cand), "contributionMode")
            /\ get(ParamsOf(in_cand), "contributionMode", NoValue) \notin ContributionModes)
              => get(DecodedParams(out), "contributionMode", NoValue) = JStr("column")

\* C9 witness: a bar candidate without params has been compiled and its params
\* carry no contributionMode
C9_BarTemplateWithoutMode ==
    /\ op = "validate"
    /\ in_cand = put(EmptyDict, "viz_type", JStr("echarts_timeseries_bar"))
    /\ get(out, "viz_type", JNull) = JStr("echarts_timeseries_bar")
    /\ IsDict(DecodedParams(out))
    /\ ~has(DecodedParams(out), "contributionMode")

\* filters holds a TEMPORAL_RANGE filter whose subject is x_axis
HasTemporalFilterOn(filters, x_axis) ==
    /\ IsList(filters)
    /\ \E i \in 1..Len(items(filters)) :
          /\ IsDict(items(filters)[i])
          /\ get(items(filters)[i], "operator", NoValue) = JStr("TEMPORAL_RANGE")
          /\ get(items(filters)[i], "subject", NoValue) = x_axis

\* C10 as stated: after timeseries normalisation with resolved axis X the output
\* adhoc_filters always contain a TEMPORAL_RANGE filter whose subject is X:
\* inserted when no filter of the candidate targets X (list absent, empty, or
\* holding only other filters), rewritten to X when a temporal filter exists.
C10_TemporalFilterOnAxis ==
    (op \in {"normalize", "cg_normalize"} /\ in_type \in TimeseriesTypes /\ out # RAISE) =>
        HasTemporalFilterOn(get(out, "adhoc_filters", NoValue), get(out, "x_axis", NoValue))

\* C10 witness: a timeseries candidate whose adhoc_filters hold only a filter on
\* another column has been normalised, the axis resolved, and no temporal
\* filter is in the output
C10_OtherFilterOnly ==
    /\ op = "normalize"
    /\ in_type \in TimeseriesTypes
    /\ get(ParamsOf(in_cand), "adhoc_filters", NoValue) = JList(<<OtherFilter>>)
    /\ out # RAISE
    /\ Truthy(get(out, "x_axis", JNull))
    /\ get(out, "adhoc_filters", NoValue) = JList(<<OtherFilter>>)

\* filter is a TEMPORAL_RANGE filter
IsTemporalRange(filter) ==
    IsDict(filter) /\ get(filter, "operator", NoValue) = JStr("TEMPORAL_RANGE")

\* the candidate's params make _validate_big_number_params take its temporal branch
TemporalBigNumber(params) ==
    IsDict(params) /\ (has(params, "x_axis") \/ has(params, "time_grain_sqla"))

\* a normalisation of a timeseries chart or of a temporal big_number has returned
TemporalOutput ==
    /\ out # RAISE
    /\ \/ op \in {"normalize", "cg_normalize"} /\ in_type \in TimeseriesTypes
       \/ op = "normalize" /\ in_type = "big_number" /\ TemporalBigNumber(ParamsOf(in_cand))

\* C11 as stated: in every normalised timeseries or temporal big_number output,
\* every TEMPORAL_RANGE filter of adhoc_filters has the output x_axis as its
\* subject, also when the candidate supplied several temporal filters or a
\* temporal filter on another column.
C11_TemporalSubjectsMatchAxis ==
    (TemporalOutput /\ IsList(get(out, "adhoc_filters", NoValue))) =>
        \A i \in 1..Len(items(get(out, "adhoc_filters", NoValue))) :
            IsTemporalRange(items(get(out, "adhoc_filters", NoValue))[i]) =>
                get(items(get(out, "adhoc_filters", NoValue))[i], "subject", NoValue)
                    = get(out, "x_axis", NoValue)

\* C11 witness: a timeseries candidate with two temporal filters on other columns
\* has been normalised onto the axis created_at; the first filter was rewritten
\* and the second still targets "yy"
C11_SecondTemporalFilterKept ==
    /\ op = "normalize"
    /\ in_type \in TimeseriesTypes
    /\ get(ParamsOf(in_cand), "adhoc_filters", NoValue)
         = JList(<<TemporalFilter(JStr("zz")), TemporalFilter(JStr("yy"))>>)
    /\ out # RAISE
    /\ get(out, "x_axis", NoValue) = JStr("created_at")
    /\ get(out, "adhoc_filters", NoValue)
         = JList(<<TemporalFilter(JStr("created_at")), TemporalFilter(JStr("yy"))>>)


\* how many TEMPORAL_RANGE filters of params target the x_axis of params
AxisFilterCount(params) ==
    IF has(params, "x_axis") /\ IsList(get(params, "adhoc_filters", NoValue))
    THEN Cardinality({i \in 1..Len(items(get(params, "adhoc_filters", NoValue))) :
            /\ IsTemporalRange(items(get(params, "adhoc_filters", NoValue))[i])
            /\ get(items(get(params, "adhoc_filters", NoValue))[i], "subject", NoValue)
                 = get(params, "x_axis", NoValue)})
    ELSE 0

\* C12 as stated: for a big_number candidate with temporal params (x_axis or
\* time_grain_sqla supplied) the output adhoc_filters hold exactly one
\* TEMPORAL_RANGE filter whose subject is the resolved x_axis, after one
\* normalisation and after normalising the output again.
C12_ExactlyOneFilterOnAxis ==
    (/\ op \in {"normalize", "renormalize"}
     /\ in_type = "big_number"
     /\ TemporalBigNumber(ParamsOf(in_cand))
     /\ out # RAISE) =>
        /\ AxisFilterCount(out) = 1
        /\ (op = "renormalize" /\ out2 # RAISE) => AxisFilterCount(out2) = 1

\* C12 witness: a big_number candidate supplying only time_grain_sqla has been
\* normalised over a catalog without date-like columns; the output has neither
\* an x_axis nor a temporal filter
C12_NoAxisNoFilter ==
    /\ op = "normalize"
    /\ in_type = "big_number"
    /\ in_ds = Plain
    /\ ParamsOf(in_cand) = put(EmptyDict, "time_grain_sqla", JStr("P1D"))
    /\ out # RAISE
    /\ ~has(out, "x_axis")
    /\ ~has(out, "adhoc_filters")


\* the columns of the catalog that satisfy P, by position
Positions(dataset, P(_)) ==
    {i \in 1..Len(ColumnsOf(dataset)) : P(ColumnsOf(dataset)[i])}

Least(S) == CHOOSE i \in S : \A j \in S : i <= j

NameAt(dataset, i) == get(ColumnsOf(dataset)[i], "column_name", NoValue)

\* the axis the rules (a) to (d) give for params over a non-empty catalog
AxisByRules(params, dataset) ==
    IF has(params, "x_axis") THEN get(params, "x_axis", NoValue)
    ELSE IF Positions(dataset, IsDateColumn) # {}
         THEN NameAt(dataset, Least(Positions(dataset, IsDateColumn)))
    ELSE IF Positions(dataset, IsDateNamedColumn) # {}
         THEN NameAt(dataset, Least(Positions(dataset, IsDateNamedColumn)))
    ELSE NameAt(dataset, 1)

BigNumberAxisByRules(params, dataset) ==
    IF Truthy(get(params, "x_axis", JNull)) THEN get(params, "x_axis", NoValue)
    ELSE AxisByRules(del(params, "x_axis"), dataset)

\* C14 as stated: big_number temporal enrichment resolves x_axis in the order
\* of the timeseries charts (supplied non-empty x_axis, else first
\* temporal-flagged column, else first column with a date-like name, else the
\* first catalog column), and time_grain_sqla is "P1D" unless the candidate
\* supplies one.
C14_BigNumberAxisByRules ==
    (/\ op = "normalize"
     /\ in_type = "big_number"
     /\ TemporalBigNumber(ParamsOf(in_cand))
     /\ Len(ColumnsOf(in_ds)) > 0
     /\ out # RAISE) =>
        /\ get(out, "x_axis", NoValue) = BigNumberAxisByRules(ParamsOf(in_cand), in_ds)
        /\ get(out, "time_grain_sqla", NoValue)
             = get(ParamsOf(in_cand), "time_grain_sqla", JStr("P1D"))

\* C14 witness: a big_number candidate with an empty x_axis has been normalised
\* over a catalog without date-like columns; the grain is the default and the
\* axis is still empty, not the first column "code"
C14_AxisLeftEmpty ==
    /\ op = "normalize"
    /\ in_type = "big_number"
    /\ in_ds = Plain
    /\ ParamsOf(in_cand) = put(EmptyDict, "x_axis", JStr(""))
    /\ out # RAISE
    /\ get(out, "time_grain_sqla", NoValue) = JStr("P1D")
    /\ get(out, "x_axis", NoValue) = JStr("")


\* the metric resolver of the normalisation that produced out
ResolvedBy(o, metric, dataset) ==
    IF o = "cg_normalize" THEN CG_enhance_metric_with_column_metadata(metric, dataset)
    ELSE enhance_metric_with_column_metadata(metric, dataset)

NonEmptyList(v) == IsList(v) /\ Len(items(v)) > 0

\* C15 as stated: for pie, funnel, big_number and big_number_total, a candidate
\* supplying a non-empty `metrics` list gets as output `metric` the resolution
\* of the first list element and loses the `metrics` key; a candidate supplying
\* only `metric` gets as output `metric` the resolution of that value.
C15_SingularMetricResolved ==
    (op \in {"normalize", "cg_normalize"} /\ in_type \in SingularTypes /\ out # RAISE) =>
        /\ NonEmptyList(get(ParamsOf(in_cand), "metrics", NoValue)) =>
              /\ ~has(out, "metrics")
              /\ WithoutMetricIds(get(out, "metric", NoValue))
                   = WithoutMetricIds(ResolvedBy(op,
                        items(get(ParamsOf(in_cand), "metrics", NoValue))[1], in_ds))
        /\ (has(ParamsOf(in_cand), "metric") /\ ~has(ParamsOf(in_cand), "metrics")) =>
              WithoutMetricIds(get(out, "metric", NoValue))
                = WithoutMetricIds(ResolvedBy(op, get(ParamsOf(in_cand), "metric", NoValue),
                                              in_ds))

\* C15 witness: ChartGenerator's normalisation of a big_number candidate that
\* supplies only `metric` has moved the resolved metric into a `metrics` list
\* and left no `metric`
C15_BigNumberMetricMadePlural ==
    /\ op = "cg_normalize"
    /\ in_type = "big_number"
    /\ ParamsOf(in_cand) = put(EmptyDict, "metric", JStr("count(*)"))
    /\ out # RAISE
    /\ ~has(out, "metric")
    /\ NonEmptyList(get(out, "metrics", NoValue))


ColumnNames(dataset) ==
    {NameAt(dataset, i) : i \in 1..Len(ColumnsOf(dataset))}

\* the metric string f(c)
MetricString(f, c) == JStr(f \o "(" \o c \o ")")

StringFunctions == {"count", "sum", "avg"}

\* metric is a Simple metric with this aggregate over the column of this name
IsSimpleOver(metric, aggregate, name) ==
    /\ IsDict(metric)
    /\ get(metric, "expressionType", NoValue) = JStr("SIMPLE")
    /\ get(metric, "aggregate", NoValue) = JStr(aggregate)
    /\ IsDict(get(metric, "column", NoValue))
    /\ get(get(metric, "column", NoValue), "column_name", NoValue) = name

Resolved == op \in {"resolve", "cg_resolve"}

\* C16 as stated: the resolver on a string f(c) with f in count, sum, avg gives,
\* when c names a catalog column, a Simple metric with aggregate upper(f) over
\* that column; on "count(*)" over a non-empty catalog it gives a Simple COUNT
\* metric over the catalog's first column with label "COUNT(*)".
C16_StringMetricResolved ==
    Resolved =>
        /\ \A f \in StringFunctions : \A c \in ColumnNames(in_ds) :
              (IsStr(c) /\ in_cand = MetricString(f, c[2])) =>
                  IsSimpleOver(out, Upper(f), c)
        /\ (in_cand = JStr("count(*)") /\ Len(ColumnsOf(in_ds)) > 0) =>
              /\ IsSimpleOver(out, "COUNT", NameAt(in_ds, 1))
              /\ get(out, "label", NoValue) = JStr("COUNT(*)")

\* C16 witness: "count(*)" has been resolved over the sales catalog into a
\* Simple COUNT metric over its first column, labelled with that column's name
C16_CountStarLabelledByColumn ==
    /\ op = "resolve"
    /\ in_cand = JStr("count(*)")
    /\ in_ds = Sales
    /\ IsSimpleOver(out, "COUNT", JStr("created_at"))
    /\ get(out, "label", NoValue) = JStr("COUNT(created_at)")



\* C17: for every string metric count(c), sum(c) or avg(c) whose column name c
\* is not in the catalog, the resolver raises nothing and returns a
\* RawExpression whose SQL text is the input string unchanged and whose label
\* is the input upper-cased. (The star of count(*) is no column name: C16.)
C17_UnknownColumnFallsBack ==
    Resolved =>
        \A f \in StringFunctions : \A c \in {"ghost", "amount", "qty", "code"} :
            (in_cand = MetricString(f, c) /\ JStr(c) \notin ColumnNames(in_ds)) =>
                /\ out # RAISE
                /\ DOMAIN out[2] = {"expressionType", "sqlExpression", "label"}
                /\ get(out, "expressionType", NoValue) = JStr("SQL")
                /\ get(out, "sqlExpression", NoValue) = in_cand
                /\ get(out, "label", NoValue) = JStr(Upper(in_cand[2]))

\* C17 witness: "sum(ghost)" has been resolved over the sales catalog, which
\* has no column ghost, into the RawExpression labelled "SUM(GHOST)"
C17_SumGhostFallsBack ==
    /\ op = "resolve"
    /\ in_cand = JStr("sum(ghost)")
    /\ in_ds = Sales
    /\ get(out, "expressionType", NoValue) = JStr("SQL")
    /\ get(out, "label", NoValue) = JStr("SUM(GHOST)")


\* metric is a Simple metric: expressionType SIMPLE with aggregate, column,
\* label and generated id
IsSimpleMetric(metric) ==
    /\ IsDict(metric)
    /\ get(metric, "expressionType", NoValue) = JStr("SIMPLE")
    /\ IsStr(get(metric, "aggregate", NoValue))
    /\ IsDict(get(metric, "column", NoValue))
    /\ has(metric, "label")
    /\ has(metric, "optionName")

\* metric is a RawExpression: expressionType SQL with SQL text and label
IsRawExpression(metric) ==
    /\ IsDict(metric)
    /\ get(metric, "expressionType", NoValue) = JStr("SQL")
    /\ IsStr(get(metric, "sqlExpression", NoValue))
    /\ has(metric, "label")

\* the RawExpression count(*) / "COUNT(*)"
IsRawCountStar(metric) ==
    /\ IsRawExpression(metric)
    /\ get(metric, "sqlExpression", NoValue) = JStr("count(*)")
    /\ get(metric, "label", NoValue) = JStr("COUNT(*)")

\* the default COUNT over the first catalog column
IsDefaultCount(metric, dataset) ==
    /\ Len(ColumnsOf(dataset)) > 0
    /\ IsSimpleMetric(metric)
    /\ IsSimpleOver(metric, "COUNT", NameAt(dataset, 1))

\* C18 as stated: for every raw metric value (string, dict with any key set,
\* the empty dict included, number, null) and every catalog the resolver
\* returns a well-formed metric, a Simple metric or a RawExpression; an input
\* that fits no resolvable form, such as the empty dict, yields the
\* RawExpression count(*) / "COUNT(*)" or the default COUNT over the first
\* catalog column.
C18_ResolverOutputWellFormed ==
    Resolved =>
        /\ IsSimpleMetric(out) \/ IsRawExpression(out)
        /\ in_cand = EmptyDict => IsRawCountStar(out) \/ IsDefaultCount(out, in_ds)

\* C18 witness: the empty dict has been resolved over the sales catalog and
\* came back as the empty dict
C18_EmptyDictReturned ==
    /\ op = "resolve"
    /\ in_cand = EmptyDict
    /\ in_ds = Sales
    /\ out = EmptyDict


\* the metrics a normalised params object carries under `metric` and `metrics`
MetricsIn(params) ==
    (IF has(params, "metric") THEN {get(params, "metric", NoValue)} ELSE {})
    \cup (IF IsList(get(params, "metrics", NoValue))
          THEN {items(get(params, "metrics", NoValue))[i] :
                   i \in 1..Len(items(get(params, "metrics", NoValue)))}
          ELSE {})

\* C19 as stated: every Simple metric in a normalised output references a
\* column whose name exists in the supplied catalog; a metric naming a column
\* outside the catalog is never emitted as a Simple metric over that column.
C19_SimpleMetricColumnInCatalog ==
    (op \in {"normalize", "cg_normalize"} /\ out # RAISE) =>
        \A m \in MetricsIn(out) :
            (IsDict(m) /\ get(m, "expressionType", NoValue) = JStr("SIMPLE")
                       /\ IsDict(get(m, "column", NoValue))) =>
                get(get(m, "column", NoValue), "column_name", NoValue) \in ColumnNames(in_ds)

\* C19 witness: a pie candidate whose metric is SUM over the column amount has
\* been normalised over the orders catalog, which has no such column, and the
\* output metric is a Simple SUM over amount
C19_SimpleOverForeignColumn ==
    /\ op = "normalize"
    /\ in_type = "pie"
    /\ in_ds = Orders
    /\ ParamsOf(in_cand) = put(EmptyDict, "metric", SumAmount)
    /\ JStr("amount") \notin ColumnNames(Orders)
    /\ out # RAISE
    /\ IsSimpleMetric(get(out, "metric", NoValue))
    /\ IsSimpleOver(get(out, "metric", NoValue), "SUM", JStr("amount"))


\* the operation names of a plan's post-processing pipeline, in order
Stages(plan) ==
    IF IsList(get(Query(plan), "post_processing", NoValue))
    THEN [i \in 1..Len(items(get(Query(plan), "post_processing", NoValue))) |->
             get(items(get(Query(plan), "post_processing", NoValue))[i], "operation", NoValue)]
    ELSE <<NoValue>>

FourStages == <<JStr("pivot"), JStr("rename"), JStr("contribution"), JStr("flatten")>>

\* config is a grouped time series, or a temporal big number, whose dimensions
\* and metrics are both non-empty
GroupedTemporal(config) ==
    /\ IsDict(DecodedParams(config))
    /\ \/ /\ get(config, "viz_type", JNull) \in TimeseriesTags
          /\ NonEmptyList(get(DecodedParams(config), "groupby", NoValue))
          /\ NonEmptyList(get(DecodedParams(config), "metrics", NoValue))
       \/ /\ get(config, "viz_type", JNull) = JStr("big_number")
          /\ Truthy(get(DecodedParams(config), "x_axis", JNull))
          /\ Truthy(get(DecodedParams(config), "metric", JNull))

\* C20 as stated: the plan's post-processing pipeline is the four stages pivot,
\* rename, contribution, flatten exactly when the chart is a grouped time
\* series or temporal big number whose dimensions and metrics are both
\* non-empty; for every other chart type or mode the pipeline is empty.
C20_PipelineFourStagesOrEmpty ==
    op = "build" =>
        Stages(out.plan) = IF GroupedTemporal(out.config) THEN FourStages ELSE <<>>

\* C20 witness: the temporal big_number job was built first, from the untouched
\* context, and its pipeline is the two stages pivot, flatten
C20_BigNumberTwoStages ==
    /\ op = "build"
    /\ calls = 1
    /\ get(out.config, "viz_type", JNull) = JStr("big_number")
    /\ GroupedTemporal(out.config)
    /\ Stages(out.plan) = <<JStr("pivot"), JStr("flatten")>>


Built == op \in {"build", "build_raw"}

\* the plan's query has no post-processing: the key is absent or holds no stage
NoPostProcessing(plan) ==
    ~has(Query(plan), "post_processing") \/ Stages(plan) = <<>>

\* C21 as stated: when reconstructing the query plan from the params fails at
\* any step (a params string that is not JSON, ill-typed groupby or metrics),
\* generate_query_context propagates no exception and returns a plan whose
\* query has metrics = [count(*)] and no post-processing.
C21_FailedReconstructionFallsBack ==
    (Built /\ ~out.ok) =>
        /\ out.plan # RAISE
        /\ get(Query(out.plan), "metrics", NoValue) = Strs(<<"count(*)">>)
        /\ NoPostProcessing(out.plan)

\* C21 witness: a configuration whose params string is not JSON has been built
\* after a grouped timeseries build; reconstruction failed, the plan asks for
\* count(*) and carries the four stages the earlier build left behind
C21_FallbackKeepsEarlierPipeline ==
    /\ op = "build_raw"
    /\ out.config = RawConfigs[1]
    /\ ~out.ok
    /\ get(Query(out.plan), "metrics", NoValue) = Strs(<<"count(*)">>)
    /\ Stages(out.plan) = FourStages


\* the names of the first 7 catalog columns, all of them when there are fewer
FirstSevenNames(dataset) ==
    JList([i \in 1..(IF Len(ColumnsOf(dataset)) < 7 THEN Len(ColumnsOf(dataset)) ELSE 7) |->
              NameAt(dataset, i)])

\* a table candidate in raw mode has been normalised by the validator
RawTableNormalized ==
    /\ op = "normalize"
    /\ in_type = "table"
    /\ get(ParamsOf(in_cand), "query_mode", NoValue) = JStr("raw")
    /\ out # RAISE

\* C22: for a table candidate with query_mode "raw" the output params have
\* groupby = [] and metrics = [], and `columns` is the candidate's list when it
\* is non-empty, otherwise the names of the first 7 catalog columns in catalog
\* order (all of them when the catalog has fewer).
C22_RawModeColumns ==
    RawTableNormalized =>
        /\ get(out, "groupby", NoValue) = EmptyList
        /\ get(out, "metrics", NoValue) = EmptyList
        /\ get(out, "columns", NoValue)
             = IF NonEmptyList(get(ParamsOf(in_cand), "columns", NoValue))
               THEN get(ParamsOf(in_cand), "columns", NoValue)
               ELSE FirstSevenNames(in_ds)

\* C22 witness: a raw-mode table candidate without columns has been normalised
\* over the nine-column catalog and its columns are the first seven names
C22_SevenOfNine ==
    /\ RawTableNormalized
    /\ ~has(ParamsOf(in_cand), "columns")
    /\ in_ds = Wide
    /\ Len(ColumnsOf(in_ds)) = 9
    /\ get(out, "columns", NoValue)
         = Strs(<<"id", "code", "name", "city", "region", "status", "amount">>)


\* the term as the rules (2) to (4) compare it: lower-cased and stripped
Lowered(term) == Strip(Lower(term[2]))

TemporalKeywords == {"date", "time", "created", "updated", "tanggal", "waktu"}

\* rule (2): the synonym entries whose phrase the term contains and whose
\* candidate is a catalog column
SynonymHits(term, dataset) ==
    {i \in 1..Len(date_mappings) :
        /\ Contains(Lowered(term), date_mappings[i][1])
        /\ JStr(date_mappings[i][2]) \in ColumnNames(dataset)}

\* rule (3): the catalog columns that contain the term or are contained in it
\* and whose name has a temporal keyword
SubstringHits(term, dataset) ==
    {i \in 1..Len(ColumnsOf(dataset)) :
        /\ \/ Contains(Lower(NameAt(dataset, i)[2]), Lowered(term))
           \/ Contains(Lowered(term), Lower(NameAt(dataset, i)[2]))
        /\ ContainsAny(Lower(NameAt(dataset, i)[2]), TemporalKeywords)}

\* rule (4): the catalog columns equal to the term when case is ignored
NoCaseHits(term, dataset) ==
    {i \in 1..Len(ColumnsOf(dataset)) : Lower(NameAt(dataset, i)[2]) = Lowered(term)}

\* the column the rules (1) to (4) give for a term, JStr("") when it is dropped;
\* a value that is no string, and the empty string, are no terms
TermByRules(term, dataset) ==
    IF ~IsStr(term) \/ term = JStr("") THEN JStr("")
    ELSE IF term \in ColumnNames(dataset) THEN term
    ELSE IF SynonymHits(term, dataset) # {}
         THEN JStr(date_mappings[Least(SynonymHits(term, dataset))][2])
    ELSE IF SubstringHits(term, dataset) # {}
         THEN NameAt(dataset, Least(SubstringHits(term, dataset)))
    ELSE IF NoCaseHits(term, dataset) # {}
         THEN NameAt(dataset, Least(NoCaseHits(term, dataset)))
    ELSE JStr("")

\* C23: an ordering term is resolved by the first rule that matches, in this
\* order: (1) exact case-sensitive column name, (2) a synonym phrase contained
\* in the term, taking the first listed candidate that is a catalog column,
\* (3) a catalog column that contains or is contained in the term and whose
\* name has a temporal keyword, (4) case-insensitive exact match; a term that
\* matches no rule, or is no string, is dropped and nothing is raised.
C23_TermResolvedByRules ==
    /\ op = "map_term" => (out # RAISE /\ out = TermByRules(in_cand, in_ds))
    /\ op = "map_terms" =>
          /\ out # RAISE
          /\ \A i \in 1..Len(items(out)) :
                /\ items(out)[i] \in ColumnNames(in_ds)
                /\ \E j \in 1..Len(items(in_cand)) :
                      items(out)[i] = TermByRules(items(in_cand)[j], in_ds)

\* C23 witness: "order date" has been mapped over a catalog holding both date
\* and order_date: the synonym rule gave order_date although the column date
\* is contained in the term
C23_SynonymBeforeSubstring ==
    /\ op = "map_term"
    /\ in_cand = JStr("order date")
    /\ in_ds = Dates
    /\ SubstringHits(in_cand, in_ds) # {}
    /\ NameAt(in_ds, Least(SubstringHits(in_cand, in_ds))) = JStr("date")
    /\ out = JStr("order_date")


\* the text of the pair [column, ascending] as order_by_cols carries it
PairText(column, ascending) ==
    JStr("[\"" \o column[2] \o "\", " \o (IF ascending THEN "true" ELSE "false") \o "]")

\* C24 as stated: in table raw-mode output every entry of order_by_cols is a
\* [column, ascending] pair whose column is a catalog column name and whose
\* ascending flag is the negation of order_desc (true by default), whether the
\* ordering came from the candidate's order_by_cols or was inferred from other
\* ordering hints of the params.
C24_OrderingEntriesArePairs ==
    (RawTableNormalized /\ IsList(get(out, "order_by_cols", NoValue))) =>
        \A i \in 1..Len(items(get(out, "order_by_cols", NoValue))) :
            \E c \in ColumnNames(in_ds) :
                /\ IsStr(c)
                /\ items(get(out, "order_by_cols", NoValue))[i]
                     = PairText(c, ~Truthy(get(out, "order_desc", JTrue)))

\* C24 witness: a raw-mode table candidate whose only ordering hint is
\* order_by = "created date" has been normalised over the sales catalog; the
\* inferred order_by_cols holds the bare column name created_at
C24_InferredOrderingIsBareName ==
    /\ RawTableNormalized
    /\ in_ds = Sales
    /\ ~has(ParamsOf(in_cand), "order_by_cols")
    /\ get(ParamsOf(in_cand), "order_by", NoValue) = JStr("created date")
    /\ get(out, "order_by_cols", NoValue) = Strs(<<"created_at">>)


\* the Simple metrics of a normalised params object that carry a generated id
BuiltMetrics(params) ==
    {m \in MetricsIn(params) : IsSimpleMetric(m)}

\* C25 as stated: within one normalisation pass any two Simple metrics built by
\* the resolver that differ in aggregate, column or label receive different
\* generated ids (optionName), also when the two share their label.
C25_DistinctMetricsDistinctIds ==
    (op \in {"normalize", "cg_normalize"} /\ out # RAISE) =>
        \A m1, m2 \in BuiltMetrics(out) :
            (\/ get(m1, "aggregate", NoValue) # get(m2, "aggregate", NoValue)
             \/ get(m1, "column", NoValue) # get(m2, "column", NoValue)
             \/ get(m1, "label", NoValue) # get(m2, "label", NoValue))
              => get(m1, "optionName", NoValue) # get(m2, "optionName", NoValue)

\* C25 witness: a table candidate with SUM(amount) and AVG(qty), both labelled
\* "total", has been normalised; the two metrics built carry the same id
C25_SameLabelSameId ==
    /\ op = "normalize"
    /\ in_type = "table"
    /\ get(ParamsOf(in_cand), "metrics", NoValue) = SameLabelMetrics
    /\ out # RAISE
    /\ \E m1, m2 \in BuiltMetrics(out) :
          /\ get(m1, "aggregate", NoValue) # get(m2, "aggregate", NoValue)
          /\ get(m1, "label", NoValue) = JStr("total")
          /\ get(m2, "label", NoValue) = JStr("total")
          /\ get(m1, "optionName", NoValue) = get(m2, "optionName", NoValue)


InvalidFields == {"dataset_id", "table_name"}

\* the candidate's top-level fields that the compile step neither strips nor
\* normalises
OtherFields(cand) == keys(cand) \ (InvalidFields \cup {"viz_type", "params"})

\* the compile call on the drawn candidate took its error-fallback path
TookFallback ==
    IF op = "cg_validate"
    THEN TryValidate(CG_validate_params_by_chart_type, in_cand, in_ds) = RAISE
    ELSE FailsInternally

Compiled == op \in {"validate", "cg_validate"}

\* every other top-level field of the candidate is in the configuration as the
\* candidate had it; viz_type and params are still fields of the configuration
OthersLeftInPlace ==
    /\ \A k \in OtherFields(in_cand) : get(out, k, NoValue) = get(in_cand, k, NoValue)
    /\ \A k \in keys(in_cand) \cap {"viz_type", "params"} : has(out, k)

\* C26 as stated: no emitted chart configuration has a top-level dataset_id or
\* table_name field, on the normal path and on the error-fallback path, and
\* all other top-level fields of the candidate are left in place.
C26_StrippedOthersKept ==
    (Compiled /\ IsDict(in_cand)) =>
        /\ keys(out) \cap InvalidFields = {}
        /\ OthersLeftInPlace

\* C26 amended: no emitted chart configuration has a top-level dataset_id or
\* table_name field, on either path; on the normal path all other top-level
\* fields of the candidate are left in place, and on the error-fallback path
\* the configuration is the minimal table configuration, which keeps none of
\* the candidate's fields.
C26_StrippedOthersKeptOnNormalPath ==
    Compiled =>
        /\ IsDict(out)
        /\ keys(out) \cap InvalidFields = {}
        /\ (IsDict(in_cand) /\ ~TookFallback) => OthersLeftInPlace
        /\ TookFallback => out = FallbackConfig(in_ds)

\* C26 witness: a candidate carrying slice_name, dataset_id and table_name made
\* the normaliser raise; the fallback configuration has neither invalid field
\* and a generated slice_name in place of the candidate's
C26_FallbackDropsCandidateFields ==
    /\ op = "validate"
    /\ IsDict(in_cand)
    /\ InvalidFields \subseteq keys(in_cand)
    /\ get(in_cand, "slice_name", NoValue) = JStr("s")
    /\ TookFallback
    /\ keys(out) \cap InvalidFields = {}
    /\ get(out, "slice_name", NoValue) # JStr("s")


\* generate_resource answered after its export step
Responded == op = "generate_resource" /\ pc = "done" /\ IsStr(out2)

ExportOutcome == out2[2]

ExportPart == get(get(out, "result", EmptyDict), "export", JNull)

ChartCreatedWithId ==
    /\ get(local.chart_result, "success", JFalse) = JTrue
    /\ Truthy(get(get(local.chart_result, "chart", EmptyDict), "id", JNull))

Called(name) == \E i \in 1..Len(local.trace) : local.trace[i] = name

\* C27: the success flag of the generate_resource response equals the
\* chart-creation success flag whatever the export step did (succeeded,
\* reported failure, timed out, raised, skipped); the export is attempted only
\* after chart creation succeeded with a chart id; a failed or timed-out
\* export is reported in the export result with success = false and an error
\* message.
C27_ExportNeverChangesSuccess ==
    /\ Responded =>
          /\ get(out, "success", NoValue) = get(local.chart_result, "success", JFalse)
          /\ (ExportOutcome # "skipped") => ChartCreatedWithId
          /\ (ExportOutcome \in {"failed", "timed_out", "raised", "not_constructed"}) =>
                /\ get(ExportPart, "success", NoValue) = JFalse
                /\ IsStr(get(ExportPart, "error", JNull))
                /\ get(ExportPart, "error", JNull) # JStr("")
    /\ (op = "generate_resource" /\ Called("export_chart")) => ChartCreatedWithId

\* C27 witness: the export timed out after the chart was created, and the
\* response still reports success with the failed export next to it
C27_TimedOutExportReported ==
    /\ Responded
    /\ ExportOutcome = "timed_out"
    /\ get(out, "success", NoValue) = JTrue
    /\ get(ExportPart, "success", NoValue) = JFalse
    /\ get(ExportPart, "error", NoValue) = JStr("Export timed out after 30 seconds")


\* the model client raised or returned an error-tagged response
ModelFailed == in_cand = RAISE \/ (IsDict(in_cand) /\ has(in_cand, "error"))

SubmissionRaised == local.created_chart = RAISE

ChartReturned == local.chart_result # NoValue

FailureResult(result) ==
    /\ get(result, "success", NoValue) = JFalse
    /\ IsStr(get(result, "error", JNull))

\* C28: in generate_chart, when the model client returns an error-tagged
\* response or raises, or when chart submission raises, the returned result
\* has success = false with an error message, never success = true; after a
\* model error create_chart is not called in that request.
C28_FailuresSurfaceAndStopSubmission ==
    /\ ModelFailed => ~Called("create_chart")
    /\ (ChartReturned /\ (ModelFailed \/ SubmissionRaised)) => FailureResult(local.chart_result)
    /\ (op = "generate_chart" /\ pc = "done" /\ (ModelFailed \/ SubmissionRaised)) =>
          FailureResult(out)

\* C28 witness: a direct generate_chart call got the error-tagged response,
\* returned the failure and made no call after the model call
C28_ErrorTaggedStopsBeforeSubmission ==
    /\ op = "generate_chart"
    /\ pc = "done"
    /\ in_cand = ErrorTagged
    /\ local.trace = <<"generate_json_async">>
    /\ get(out, "success", NoValue) = JFalse
    /\ get(out, "error", NoValue) = JStr("AI model error: Invalid JSON response")


\* config is a timeseries chart whose normalized params hold x_axis and a
\* groupby list
TimeseriesWithAxisAndGroupby(config) ==
    /\ get(config, "viz_type", JNull) \in TimeseriesTags
    /\ IsDict(DecodedParams(config))
    /\ has(DecodedParams(config), "x_axis")
    /\ IsList(get(DecodedParams(config), "groupby", NoValue))

PlanColumns(plan) == get(Query(plan), "columns", NoValue)

\* column is the time-axis descriptor of params
IsAxisDescriptor(column, params) ==
    /\ IsDict(column)
    /\ get(column, "columnType", NoValue) = JStr("BASE_AXIS")
    /\ get(column, "timeGrain", NoValue) = get(params, "time_grain_sqla", JStr("P1W"))
    /\ get(column, "label", NoValue) = get(params, "x_axis", NoValue)

\* C29 as stated: for a timeseries chart whose normalized params hold x_axis
\* and groupby, the columns of the query built by generate_query_context are
\* the time-axis descriptor (columnType BASE_AXIS, timeGrain = time_grain_sqla,
\* label = x_axis) followed by the groupby columns in order.
C29_AxisDescriptorLeadsColumns ==
    (op \in {"build", "compile"} /\ TimeseriesWithAxisAndGroupby(out.config)) =>
        /\ IsList(PlanColumns(out.plan))
        /\ Len(items(PlanColumns(out.plan))) = 1 + Len(items(get(DecodedParams(out.config), "groupby", NoValue)))
        /\ IsAxisDescriptor(items(PlanColumns(out.plan))[1], DecodedParams(out.config))
        /\ Tail(items(PlanColumns(out.plan))) = items(get(DecodedParams(out.config), "groupby", NoValue))

\* C29 witness: the plan of the timeseries job grouped by category was built
\* first, and its query columns are the groupby list alone
C29_ColumnsAreGroupbyOnly ==
    /\ op = "build"
    /\ calls = 1
    /\ TimeseriesWithAxisAndGroupby(out.config)
    /\ get(DecodedParams(out.config), "x_axis", NoValue) = JStr("created_at")
    /\ PlanColumns(out.plan) = Strs(<<"category">>)


\* a request sent after a 401 carries a token obtained after that 401
RetryTokenIsNew == (pc = "send" /\ local.after_401) => (local._access_token # JNull /\ local.fresh)

====
